---- MODULE Spec2Model ----
(***************************************************************************)
(* Model of the one-day meal plan optimizer of src/app7.py:                *)
(* generate_item_combos, top_candidates_by_target, plan_score, names_set,  *)
(* optimize_day_fixed_score_no_overlap and the part of page_today_plan     *)
(* that drives them.                                                       *)
(*                                                                         *)
(* Numbers.  kcal, prices and grams are integers.  The targets of          *)
(* target_pfc_grams are rationals with denominator 720, the band factors   *)
(* have denominator 20 and the weights denominator 10, so every score is   *)
(* an integer multiple of 1/ScoreScale (ScoreScale = 720 * 20 * 10) and is *)
(* kept here as that integer: the arithmetic is exact.  The code computes  *)
(* the same quantities in IEEE doubles; the rounding of their last place   *)
(* (100.0 * 1.15 evaluates to 114.99999999999999) is not modelled.         *)
(*                                                                         *)
(* Specifications.  Spec is one request on the page; ScoreSpec calls       *)
(* plan_score alone, SplitSpec the slot split alone (app7.py and app3.py), *)
(* CallSpec calls the optimizer directly, OwnPoolSpec is a request against *)
(* a store with three products of its own per slot.  CancelSpec is the     *)
(* direct call with a caller that gives up, TrimSpec the page up to the    *)
(* trim, PriceSpec the direct call on tables that may hold a negative      *)
(* price, ConfigSpec the direct call with keep_top and the dinner cut in   *)
(* the two shipped shapes, and SameInputSpec the direct call with the      *)
(* shipped keep_top, compared with app3.py's optimizer on the same input.  *)
(***************************************************************************)
EXTENDS Integers, Sequences, FiniteSets, TLC

(***************************************************************************)
(* Bounds of the model.                                                    *)
(***************************************************************************)
\* longest product table of a store that Init draws
MaxCatalog == 4
\* largest max_items that Init draws (the page passes 3)
MaxItemsTop == 2
\* keep_top of top_candidates_by_target (60 in app7.py), scaled down
KeepTop == 2
\* length of the per-pair dinner prefix ([:60] in app7.py), scaled down
DinnerPrefix == 2
\* n of _trim (40 in app7.py), scaled down
TrimN == 3
\* the daily intakes for which the slot split is computed on its own
MaxSplitIntake == 250
\* the shipped values: max_items of the page, keep_top and the dinner prefix
MAX_ITEMS == 3
KEEP_TOP == 60
DINNER_PREFIX == 60
\* app3.py and app2copy.py: keep_top=140 and the dinners cut at [:200]
KEEP_TOP_APP3 == 140
DINNER_PREFIX_APP3 == 200

(***************************************************************************)
(* The products the stores can hold.  Names are the identity key.  The     *)
(* three slots read the same store's table, so the products tagged "any"   *)
(* are offered to every slot and the slots' pools share names.  Prices are *)
(* non-negative, as the data model has them, but for P, a dinner row with  *)
(* a negative price that only the tables of PriceSpec hold.                *)
(***************************************************************************)
Names == {"A", "B", "C", "D", "E", "F"}

ItemTable ==
  [ A |-> [name |-> "A", kcal |-> 250, price_jpy |-> 100, protein_g |-> 10,
           fat_g |-> 8, carb_g |-> 35, fiber_g |-> 2, meal_slot_hint |-> "any"],
    B |-> [name |-> "B", kcal |-> 250, price_jpy |-> 100, protein_g |-> 25,
           fat_g |-> 5, carb_g |-> 26, fiber_g |-> 4, meal_slot_hint |-> "any"],
    C |-> [name |-> "C", kcal |-> 250, price_jpy |-> 150, protein_g |-> 10,
           fat_g |-> 8, carb_g |-> 35, fiber_g |-> 2, meal_slot_hint |-> "any"],
    D |-> [name |-> "D", kcal |-> 230, price_jpy |-> 320, protein_g |-> 12,
           fat_g |-> 6, carb_g |-> 30, fiber_g |-> 6, meal_slot_hint |-> "breakfast"],
    E |-> [name |-> "E", kcal |-> 500, price_jpy |-> 200, protein_g |-> 30,
           fat_g |-> 15, carb_g |-> 60, fiber_g |-> 5, meal_slot_hint |-> "lunch"],
    F |-> [name |-> "F", kcal |-> 500, price_jpy |-> 150, protein_g |-> 30,
           fat_g |-> 15, carb_g |-> 60, fiber_g |-> 5, meal_slot_hint |-> "dinner"],
    G |-> [name |-> "G", kcal |-> 240, price_jpy |-> 100, protein_g |-> 12,
           fat_g |-> 6, carb_g |-> 34, fiber_g |-> 3, meal_slot_hint |-> "breakfast"],
    H |-> [name |-> "H", kcal |-> 300, price_jpy |-> 100, protein_g |-> 15,
           fat_g |-> 9, carb_g |-> 40, fiber_g |-> 2, meal_slot_hint |-> "breakfast"],
    I |-> [name |-> "I", kcal |-> 360, price_jpy |-> 100, protein_g |-> 20,
           fat_g |-> 12, carb_g |-> 43, fiber_g |-> 4, meal_slot_hint |-> "breakfast"],
    J |-> [name |-> "J", kcal |-> 480, price_jpy |-> 100, protein_g |-> 25,
           fat_g |-> 14, carb_g |-> 62, fiber_g |-> 5, meal_slot_hint |-> "lunch"],
    K |-> [name |-> "K", kcal |-> 540, price_jpy |-> 100, protein_g |-> 30,
           fat_g |-> 16, carb_g |-> 68, fiber_g |-> 4, meal_slot_hint |-> "lunch"],
    L |-> [name |-> "L", kcal |-> 600, price_jpy |-> 100, protein_g |-> 28,
           fat_g |-> 20, carb_g |-> 75, fiber_g |-> 6, meal_slot_hint |-> "lunch"],
    M |-> [name |-> "M", kcal |-> 500, price_jpy |-> 100, protein_g |-> 32,
           fat_g |-> 15, carb_g |-> 58, fiber_g |-> 5, meal_slot_hint |-> "dinner"],
    N |-> [name |-> "N", kcal |-> 560, price_jpy |-> 100, protein_g |-> 35,
           fat_g |-> 18, carb_g |-> 62, fiber_g |-> 6, meal_slot_hint |-> "dinner"],
    O |-> [name |-> "O", kcal |-> 620, price_jpy |-> 100, protein_g |-> 40,
           fat_g |-> 20, carb_g |-> 68, fiber_g |-> 7, meal_slot_hint |-> "dinner"],
    P |-> [name |-> "P", kcal |-> 500, price_jpy |-> -100, protein_g |-> 32,
           fat_g |-> 15, carb_g |-> 58, fiber_g |-> 5, meal_slot_hint |-> "dinner"] ]

\* a store where every slot has three products of its own, each at 100 yen
OwnPoolOrders ==
  { <<"G", "H", "I", "J", "K", "L", "M", "N", "O">>,
    <<"O", "L", "I", "N", "K", "H", "M", "J", "G">> }
\* one product per slot adds up to the intake
OwnPoolIntakes == {240 + 480 + 500, 300 + 540 + 560, 360 + 600 + 620}

\* the orders a store's rows may come in
RowOrders ==
  { <<"A", "B", "C", "D", "E", "F">>,
    <<"F", "E", "D", "C", "B", "A">>,
    <<"C", "A", "E", "B", "F", "D">> }

IntakeSet == {1200, 1500}
BudgetSet == {300, 400, 600}
WeightSet == {50}

(***************************************************************************)
(* Helpers.                                                                *)
(***************************************************************************)
Abs(x) == IF x < 0 THEN -x ELSE x

Min(a, b) == IF a < b THEN a ELSE b

Max(a, b) == IF a > b THEN a ELSE b

Range(s) == {s[i] : i \in 1..Len(s)}

\* s[:n]
Take(s, n) == SubSeq(s, 1, Min(n, Len(s)))

\* the elements of order that are in S, in the order they have there
RECURSIVE Restrict(_, _)
Restrict(order, S) ==
  IF order = <<>> THEN <<>>
  ELSE IF Head(order) \in S THEN <<Head(order)>> \o Restrict(Tail(order), S)
  ELSE Restrict(Tail(order), S)

\* the product tables Init draws: at most MaxCatalog products, in one of the
\* row orders
Catalogs ==
  {Restrict(o, S) : o \in RowOrders,
                    S \in {T \in SUBSET Names : Cardinality(T) <= MaxCatalog}}

\* rows of a store's table whose meal_slot_hint is the slot or "any", in table order
RECURSIVE load_products_for(_, _)
load_products_for(catalog, slot) ==
  IF catalog = <<>> THEN <<>>
  ELSE LET h == ItemTable[Head(catalog)].meal_slot_hint
           rest == load_products_for(Tail(catalog), slot)
       IN IF h = slot \/ h = "any" THEN <<Head(catalog)>> \o rest ELSE rest

(***************************************************************************)
(* list.sort / sorted with a tuple key <<k1, k2>>: ascending, stable.      *)
(* The argument is a sequence of <<key, value>> pairs.                     *)
(***************************************************************************)
KeyLess(a, b) == a[1] < b[1] \/ (a[1] = b[1] /\ a[2] < b[2])

\* x goes before the elements whose key equals its own
RECURSIVE InsertBeforeEqual(_, _)
InsertBeforeEqual(sorted, x) ==
  IF sorted = <<>> THEN <<x>>
  ELSE IF ~KeyLess(Head(sorted)[1], x[1]) THEN <<x>> \o sorted
       ELSE <<Head(sorted)>> \o InsertBeforeEqual(Tail(sorted), x)

\* x goes after every element whose key is not greater than its own
RECURSIVE InsertStable(_, _)
InsertStable(sorted, x) ==
  IF sorted = <<>> THEN <<x>>
  ELSE IF KeyLess(x[1], Head(sorted)[1]) THEN <<x>> \o sorted
       ELSE <<Head(sorted)>> \o InsertStable(Tail(sorted), x)

RECURSIVE StableSortPairs(_)
StableSortPairs(pairs) ==
  IF pairs = <<>> THEN <<>>
  ELSE InsertStable(StableSortPairs(SubSeq(pairs, 1, Len(pairs) - 1)),
                    pairs[Len(pairs)])

Values(pairs) == [i \in 1..Len(pairs) |-> pairs[i][2]]

(***************************************************************************)
(* generate_item_combos                                                    *)
(***************************************************************************)
\* itertools.combinations(items, r): the r-subsequences in lexicographic
\* order of their positions
RECURSIVE combinations(_, _)
combinations(items, r) ==
  IF r = 0 THEN << <<>> >>
  ELSE IF Len(items) < r THEN <<>>
  ELSE LET with == combinations(Tail(items), r - 1)
       IN [i \in 1..Len(with) |-> <<Head(items)>> \o with[i]]
          \o combinations(Tail(items), r)

\* sum(x[field] for x in comb)
RECURSIVE SumOf(_, _)
SumOf(comb, field) ==
  IF comb = <<>> THEN 0
  ELSE ItemTable[Head(comb)][field] + SumOf(Tail(comb), field)

\* the fat total is summed from the protein column
BundleFatFromProtein(comb) ==
  [kcal |-> SumOf(comb, "kcal"), price |-> SumOf(comb, "price_jpy"), items |-> comb,
   protein |-> SumOf(comb, "protein_g"), fat |-> SumOf(comb, "protein_g"),
   carb |-> SumOf(comb, "carb_g"), fiber |-> SumOf(comb, "fiber_g")]

\* the dict appended for one combination
Bundle(comb) ==
  [kcal |-> SumOf(comb, "kcal"), price |-> SumOf(comb, "price_jpy"), items |-> comb,
   protein |-> SumOf(comb, "protein_g"), fat |-> SumOf(comb, "fat_g"),
   carb |-> SumOf(comb, "carb_g"), fiber |-> SumOf(comb, "fiber_g")]

\* a bundle that costs exactly the budget is dropped
WithinBudgetStrict(price, budget) == price < budget

\* if price <= budget: combos.append(...)
WithinBudget(price, budget) == price <= budget

RECURSIVE KeepAffordable(_, _)
KeepAffordable(combs, budget) ==
  IF combs = <<>> THEN <<>>
  ELSE LET b == Bundle(Head(combs))
           rest == KeepAffordable(Tail(combs), budget)
       IN IF WithinBudget(b.price, budget) THEN <<b>> \o rest ELSE rest

\* the largest r of the outer loop
MaxR(mi, n) == Min(mi, n)

RECURSIVE CombosUpTo(_, _, _)
CombosUpTo(items, budget, r) ==
  IF r = 0 THEN <<>>
  ELSE CombosUpTo(items, budget, r - 1) \o KeepAffordable(combinations(items, r), budget)

generate_item_combos(df_slot, budget, mi) ==
  CombosUpTo(df_slot, budget, MaxR(mi, Len(df_slot)))

(***************************************************************************)
(* top_candidates_by_target                                                *)
(***************************************************************************)
\* the dict built for one combo: its fields plus absdiff
Scored(c, target_kcal) ==
  [kcal |-> c.kcal, price |-> c.price, items |-> c.items,
   protein |-> c.protein, fat |-> c.fat, carb |-> c.carb, fiber |-> c.fiber,
   absdiff |-> Abs(c.kcal - target_kcal)]

\* the two parts of the key are swapped
RankKeyPriceFirst(x) == <<x.price, x.absdiff>>

\* key=lambda x: (x["absdiff"], x["price"])
RankKey(x) == <<x.absdiff, x.price>>

top_candidates_by_target(combos, target_kcal, keep_top) ==
  LET scored == [i \in 1..Len(combos) |-> Scored(combos[i], target_kcal)]
      pairs == [i \in 1..Len(scored) |-> <<RankKey(scored[i]), scored[i]>>]
  IN Take(Values(StableSortPairs(pairs)), keep_top)

(***************************************************************************)
(* target_pfc_grams, in units of 1/720 g                                   *)
(***************************************************************************)
\* a common denominator of the three targets: 10 for p_per_kg, 36 for 0.25 / 9,
\* and 4 more for c_kcal / 4
TargetScale == 10 * 36 * 2

\* p_per_kg = 1.6 and f_ratio = 0.25, as fractions
P_PER_KG_NUM == 16
P_PER_KG_DEN == 10
F_RATIO_NUM == 25
F_RATIO_DEN == 100

target_pfc_grams(intake_kcal, w) ==
  LET p_g == (w * P_PER_KG_NUM * TargetScale) \div P_PER_KG_DEN
      f_g == (intake_kcal * F_RATIO_NUM * TargetScale) \div (F_RATIO_DEN * 9)
      c_kcal == intake_kcal * TargetScale - (p_g * 4 + f_g * 9)
      c_g == Max(0, c_kcal \div 4)
  IN [p |-> p_g, f |-> f_g, c |-> c_g]

(***************************************************************************)
(* plan_score, in units of 1/ScoreScale                                    *)
(***************************************************************************)
FIBER_MIN_G == 18
\* the default weights, in tenths
W_KCAL == 10
W_P == 8
W_F == 6
W_C == 4
W_FIBER == 5
OVER_PENALTY == 5
\* the band factors, in twentieths: 0.90, 0.85, 1.15
P_LO == 18
FC_LO == 17
BAND_HI == 23
BandScale == 2 * 10
\* one gram, in the unit the bands are compared in
Gram == TargetScale * BandScale
ScoreScale == Gram * 10

\* over_penalty is ignored: an overshoot costs as much as an undershoot
OverWeightFull(w) == w

\* w * over_penalty, in tenths
OverWeight(w) == (w * OVER_PENALTY) \div 10

\* the deviation keeps its sign
KcalTermSigned(kcal, tg_kcal) == W_KCAL * Gram * (kcal - tg_kcal)

\* score = w_kcal * abs(kcal - tg_kcal)
KcalTerm(kcal, tg_kcal) == W_KCAL * Gram * Abs(kcal - tg_kcal)

\* the tolerance band is forgotten: every deviation from the target is penalised
BandPenaltyFromTarget(x, tg, lo, hi, w) ==
  LET xs == x * Gram
      x_tg == tg * BandScale
  IN IF xs < x_tg THEN w * (x_tg - xs)
     ELSE IF xs > x_tg THEN OverWeight(w) * (xs - x_tg)
     ELSE 0

\* if x < lo: w * (lo - x)  elif x > hi: w * over_penalty * (x - hi)
BandPenalty(x, tg, lo, hi, w) ==
  LET xs == x * Gram
      x_min == tg * lo
      x_max == tg * hi
  IN IF xs < x_min THEN w * (x_min - xs)
     ELSE IF xs > x_max THEN OverWeight(w) * (xs - x_max)
     ELSE 0

\* the test fiber < fiber_min is dropped: fiber above the floor is rewarded
FiberPenaltySigned(fiber, fiber_min) == W_FIBER * Gram * (fiber_min - fiber)

\* if fiber < fiber_min: w_fiber * (fiber_min - fiber)
FiberPenalty(fiber, fiber_min) ==
  IF fiber < fiber_min THEN W_FIBER * Gram * (fiber_min - fiber) ELSE 0

plan_score(plan, tg_kcal, tg_p, tg_f, tg_c) ==
  KcalTerm(plan.kcal_total, tg_kcal)
  + BandPenalty(plan.protein_total, tg_p, P_LO, BAND_HI, W_P)
  + BandPenalty(plan.fat_total, tg_f, FC_LO, BAND_HI, W_F)
  + BandPenalty(plan.carb_total, tg_c, FC_LO, BAND_HI, W_C)
  + FiberPenalty(plan.fiber_total, FIBER_MIN_G)

(***************************************************************************)
(* names_set and the pieces of optimize_day_fixed_score_no_overlap         *)
(***************************************************************************)
names_set(combo) == Range(combo.items)

\* two name sets clash only when they are the same set
OverlapEqual(a, b) == a = b

\* the two name sets are united, not intersected
OverlapUnion(a, b) == a \cup b # {}

\* names_b & names_set(cl), names_bl & names_set(cd)
Overlap(a, b) == a \cap b # {}

\* a total equal to the budget is rejected too
OverBudgetOrEqual(price, budget) == price >= budget

\* if price > budget: continue
OverBudget(price, budget) == price > budget

\* the 20/40/40 split: int(intake*0.20), int(intake*0.40), the rest
SPLIT_B == 20
SPLIT_L == 40
T_b(intake_kcal) == (intake_kcal * SPLIT_B) \div 100
T_l(intake_kcal) == (intake_kcal * SPLIT_L) \div 100
\* dinner takes the floor of its own 40% instead of the rest
T_dOwnShare(intake_kcal) == (intake_kcal * SPLIT_L) \div 100
T_d(intake_kcal) == intake_kcal - T_b(intake_kcal) - T_l(intake_kcal)

\* the 30/40/30 split of app3.py: int(intake*0.30), int(intake*0.40), the rest
SPLIT_B_APP3 == 30
SPLIT_L_APP3 == 40
T_b_app3(intake_kcal) == (intake_kcal * SPLIT_B_APP3) \div 100
T_l_app3(intake_kcal) == (intake_kcal * SPLIT_L_APP3) \div 100
T_d_app3(intake_kcal) == intake_kcal - T_b_app3(intake_kcal) - T_l_app3(intake_kcal)

\* the dinners keep the key of the ranking against the fixed dinner target
DinnerKeyFixedTarget(x, remain) == <<x.absdiff, x.price>>

\* key=lambda x: (abs(x["kcal"]-remain), x["price"])
DinnerKey(x, remain) == <<Abs(x.kcal - remain), x.price>>

\* the cut is one short: sorted(cands_d, key=...)[:prefix - 1]
DinnerOrderOneShort(cands, remain, prefix) ==
  LET pairs == [i \in 1..Len(cands) |-> <<DinnerKey(cands[i], remain), cands[i]>>]
  IN Take(Values(StableSortPairs(pairs)), prefix - 1)

\* sorted(cands_d, key=...)[:prefix]
DinnerOrder(cands, remain, prefix) ==
  LET pairs == [i \in 1..Len(cands) |-> <<DinnerKey(cands[i], remain), cands[i]>>]
  IN Take(Values(StableSortPairs(pairs)), prefix)

\* kcal_total is left at the lunch's and the dinner's: kcal_bl lacks the breakfast
MakePlanKcalWithoutBreakfast(cb, cl, cd) ==
  [breakfast |-> cb, lunch |-> cl, dinner |-> cd,
   kcal_total |-> cl.kcal + cd.kcal,
   protein_total |-> (cb.protein + cl.protein) + cd.protein,
   fat_total |-> (cb.fat + cl.fat) + cd.fat,
   carb_total |-> (cb.carb + cl.carb) + cd.carb,
   fiber_total |-> (cb.fiber + cl.fiber) + cd.fiber,
   price_total |-> (cb.price + cl.price) + cd.price]

\* price_total is left at price_bl: the dinner's price is not added
MakePlanPairPrice(cb, cl, cd) ==
  [breakfast |-> cb, lunch |-> cl, dinner |-> cd,
   kcal_total |-> (cb.kcal + cl.kcal) + cd.kcal,
   protein_total |-> (cb.protein + cl.protein) + cd.protein,
   fat_total |-> (cb.fat + cl.fat) + cd.fat,
   carb_total |-> (cb.carb + cl.carb) + cd.carb,
   fiber_total |-> (cb.fiber + cl.fiber) + cd.fiber,
   price_total |-> cb.price + cl.price]

\* the plan dict of one (cb, cl, cd)
MakePlan(cb, cl, cd) ==
  [breakfast |-> cb, lunch |-> cl, dinner |-> cd,
   kcal_total |-> (cb.kcal + cl.kcal) + cd.kcal,
   protein_total |-> (cb.protein + cl.protein) + cd.protein,
   fat_total |-> (cb.fat + cl.fat) + cd.fat,
   carb_total |-> (cb.carb + cl.carb) + cd.carb,
   fiber_total |-> (cb.fiber + cl.fiber) + cd.fiber,
   price_total |-> (cb.price + cl.price) + cd.price]

\* best = None, best_score = float("inf")
NoBundle ==
  [kcal |-> 0, price |-> 0, items |-> <<>>, protein |-> 0, fat |-> 0,
   carb |-> 0, fiber |-> 0, absdiff |-> 0]
None ==
  [breakfast |-> NoBundle, lunch |-> NoBundle, dinner |-> NoBundle,
   kcal_total |-> 0, protein_total |-> 0, fat_total |-> 0, carb_total |-> 0,
   fiber_total |-> 0, price_total |-> 0]
Inf == -1

\* score < best_score, with best_score possibly infinite
ScoreLess(s, bs) == bs = Inf \/ s < bs

\* (best["price_total"] if best else 1e18) compared with price_total
PriceLess(price_total, b) == b = None \/ price_total < b.price_total

\* no comparison: the last plan scored is kept
ImprovesAlways(s, price_total, b, bs) == TRUE

\* the first plan found is kept: nothing replaces a recorded best
ImprovesFirstOnly(s, price_total, b, bs) == bs = Inf

\* the cheaper plan wins, the score only breaks ties on the price
ImprovesPriceFirst(s, price_total, b, bs) ==
  bs = Inf \/ price_total < b.price_total \/ (price_total = b.price_total /\ s < bs)

\* score <= best_score: a later plan with the same score always replaces the best
ImprovesOnEqual(s, price_total, b, bs) == bs = Inf \/ s <= bs

\* the tie on the score is never broken by the price
ImprovesScoreOnly(s, price_total, b, bs) == ScoreLess(s, bs)

\* (score < best_score) or (score == best_score and price_total < ...)
Improves(s, price_total, b, bs) ==
  ScoreLess(s, bs) \/ (s = bs /\ PriceLess(price_total, b))

(***************************************************************************)
(* page_today_plan._trim                                                   *)
(***************************************************************************)
\* the slot hint is left out of the key: by=["_absdiff"]
TrimKeyDiffOnly(name, target_kcal, slot_key) ==
  <<0, Abs(ItemTable[name].kcal - target_kcal)>>

\* by=["_prio", "_absdiff"], ascending=[False, True]
TrimKey(name, target_kcal, slot_key) ==
  <<IF ItemTable[name].meal_slot_hint = slot_key THEN 0 ELSE 1,
    Abs(ItemTable[name].kcal - target_kcal)>>

\* sort_values(...).head(n); rows with equal keys keep their order
Trim(df, target_kcal, slot_key, n) ==
  LET pairs == [i \in 1..Len(df) |-> <<TrimKey(df[i], target_kcal, slot_key), df[i]>>]
  IN Take(Values(StableSortPairs(pairs)), n)

(***************************************************************************)
(* State.  catalog, intake, budget_today, weight_today and max_items are   *)
(* the inputs of one request, keep_top and dinner_prefix the two pruning   *)
(* parameters of the optimizer; cancel_token is the caller's own flag for  *)
(* giving up on a request, which no parameter of the optimizer carries;    *)
(* the rest are the locals of page_today_plan and of                       *)
(* optimize_day_fixed_score_no_overlap, ui is the list of messages the     *)
(* page has put on the screen, and pc is the position.                     *)
(***************************************************************************)
VARIABLES catalog, intake, budget_today, weight_today, max_items,
          keep_top, dinner_prefix, cancel_token,
          df_b, df_l, df_d, combos_b, combos_l, combos_d,
          t_b, t_l, t_d, tg,
          cands_b, cands_l, cands_d, ib, il, dinners, k,
          plan, score, best, best_score, ui, pc

inputs == <<catalog, intake, budget_today, weight_today, max_items,
            keep_top, dinner_prefix, cancel_token>>
frames == <<df_b, df_l, df_d>>
lists == <<combos_b, combos_l, combos_d>>
targets == <<t_b, t_l, t_d, tg>>
ranked == <<cands_b, cands_l, cands_d>>
vars == <<catalog, intake, budget_today, weight_today, max_items,
          keep_top, dinner_prefix, cancel_token,
          df_b, df_l, df_d, combos_b, combos_l, combos_d,
          t_b, t_l, t_d, tg,
          cands_b, cands_l, cands_d, ib, il, dinners, k,
          plan, score, best, best_score, ui, pc>>

\* the locals of the page and of the optimizer before either has run
NoTargets == [p |-> 0, f |-> 0, c |-> 0]

Fresh ==
  /\ df_b = <<>> /\ df_l = <<>> /\ df_d = <<>>
  /\ combos_b = <<>> /\ combos_l = <<>> /\ combos_d = <<>>
  /\ t_b = 0 /\ t_l = 0 /\ t_d = 0 /\ tg = NoTargets
  /\ cands_b = <<>> /\ cands_l = <<>> /\ cands_d = <<>>
  /\ ib = 1 /\ il = 1 /\ dinners = <<>> /\ k = 1
  /\ plan = None /\ score = 0
  /\ best = None /\ best_score = Inf
  /\ ui = <<>>

Init ==
  /\ catalog \in Catalogs
  /\ intake \in IntakeSet
  /\ budget_today \in BudgetSet
  /\ weight_today \in WeightSet
  /\ max_items \in 1..MaxItemsTop
  /\ keep_top = KeepTop
  /\ cancel_token = FALSE
  /\ dinner_prefix = DinnerPrefix
  /\ Fresh
  /\ pc = "submit"

\* what the page puts on the screen: st.error, st.warning, or the plan cards
MsgMissing == [kind |-> "error", text |-> "no candidate products for a slot"]
MsgInsufficient == [kind |-> "warning", text |-> "not enough candidates"]
MsgNotFound == [kind |-> "error", text |-> "no plan meets the conditions"]
MsgPlan == [kind |-> "subheader", text |-> "proposal (no product repeated)"]

\* the macro targets of the request
Tg == target_pfc_grams(intake, weight_today)

\* if missing: st.error(...); st.stop()
PageMissing ==
  /\ pc = "submit"
  /\ \/ load_products_for(catalog, "breakfast") = <<>>
     \/ load_products_for(catalog, "lunch") = <<>>
     \/ load_products_for(catalog, "dinner") = <<>>
  /\ df_b' = load_products_for(catalog, "breakfast")
  /\ df_l' = load_products_for(catalog, "lunch")
  /\ df_d' = load_products_for(catalog, "dinner")
  /\ pc' = "error_missing"
  /\ ui' = Append(ui, MsgMissing)
  /\ UNCHANGED <<inputs, targets, lists, ranked, ib, il, dinners, k, plan, score, best, best_score>>

\* the three frames are loaded and trimmed
PageTrim ==
  /\ pc = "submit"
  /\ load_products_for(catalog, "breakfast") # <<>>
  /\ load_products_for(catalog, "lunch") # <<>>
  /\ load_products_for(catalog, "dinner") # <<>>
  /\ df_b' = Trim(load_products_for(catalog, "breakfast"), T_b(intake), "breakfast", TrimN)
  /\ df_l' = Trim(load_products_for(catalog, "lunch"), T_l(intake), "lunch", TrimN)
  /\ df_d' = Trim(load_products_for(catalog, "dinner"), T_d(intake), "dinner", TrimN)
  /\ pc' = "generate"
  /\ UNCHANGED <<inputs, targets, ui, lists, ranked, ib, il, dinners, k, plan, score, best, best_score>>

\* combos_b, combos_l, combos_d = generate_item_combos(...)
PageGenerate ==
  /\ pc = "generate"
  /\ combos_b' = generate_item_combos(df_b, budget_today, max_items)
  /\ combos_l' = generate_item_combos(df_l, budget_today, max_items)
  /\ combos_d' = generate_item_combos(df_d, budget_today, max_items)
  /\ pc' = "generated"
  /\ UNCHANGED <<inputs, targets, ui, frames, ranked, ib, il, dinners, k, plan, score, best, best_score>>

\* if not (combos_b and combos_l and combos_d): st.warning(...); st.stop()
PageInsufficient ==
  /\ pc = "generated"
  /\ (combos_b = <<>> \/ combos_l = <<>> \/ combos_d = <<>>)
  /\ pc' = "warning_insufficient"
  /\ ui' = Append(ui, MsgInsufficient)
  /\ UNCHANGED <<inputs, targets, frames, lists, ranked, ib, il, dinners, k, plan, score, best, best_score>>

\* the page calls the optimizer whatever the three bundle lists hold
OptStartUnchecked ==
  /\ pc = "generated"
  /\ t_b' = T_b(intake) /\ t_l' = T_l(intake) /\ t_d' = T_d(intake)
  /\ tg' = target_pfc_grams(intake, weight_today)
  /\ cands_b' = top_candidates_by_target(combos_b, t_b', keep_top)
  /\ cands_l' = top_candidates_by_target(combos_l, t_l', keep_top)
  /\ cands_d' = top_candidates_by_target(combos_d, t_d', keep_top)
  /\ best' = None /\ best_score' = Inf
  /\ ib' = 1 /\ il' = 1
  /\ pc' = "pair"
  /\ UNCHANGED <<inputs, ui, frames, lists, dinners, k, plan, score>>

\* the call: targets, ranking, best = None
OptStart ==
  /\ pc = "generated"
  /\ combos_b # <<>> /\ combos_l # <<>> /\ combos_d # <<>>
  /\ t_b' = T_b(intake) /\ t_l' = T_l(intake) /\ t_d' = T_d(intake)
  /\ tg' = target_pfc_grams(intake, weight_today)
  /\ cands_b' = top_candidates_by_target(combos_b, t_b', keep_top)
  /\ cands_l' = top_candidates_by_target(combos_l, t_l', keep_top)
  /\ cands_d' = top_candidates_by_target(combos_d, t_d', keep_top)
  /\ best' = None /\ best_score' = Inf
  /\ ib' = 1 /\ il' = 1
  /\ pc' = "pair"
  /\ UNCHANGED <<inputs, ui, frames, lists, dinners, k, plan, score>>

\* the next (cb, cl) of the two outer loops
AdvancePair ==
  IF il < Len(cands_l) THEN ib' = ib /\ il' = il + 1
  ELSE ib' = ib + 1 /\ il' = 1

InPairs == pc = "pair" /\ ib <= Len(cands_b)

\* if names_b & names_set(cl): continue
PairOverlap ==
  /\ InPairs
  /\ Overlap(names_set(cands_b[ib]), names_set(cands_l[il]))
  /\ AdvancePair
  /\ UNCHANGED <<inputs, targets, ui, frames, lists, ranked, dinners, k, plan, score, best, best_score, pc>>

\* if price_bl > budget: continue
PairOverBudget ==
  /\ InPairs
  /\ ~Overlap(names_set(cands_b[ib]), names_set(cands_l[il]))
  /\ OverBudget(cands_b[ib].price + cands_l[il].price, budget_today)
  /\ AdvancePair
  /\ UNCHANGED <<inputs, targets, ui, frames, lists, ranked, dinners, k, plan, score, best, best_score, pc>>

\* the ranked dinner list itself is sorted (cands_d.sort(...)) and then cut
PairAcceptSortInPlace ==
  /\ InPairs
  /\ ~Overlap(names_set(cands_b[ib]), names_set(cands_l[il]))
  /\ ~OverBudget(cands_b[ib].price + cands_l[il].price, budget_today)
  /\ cands_d' = DinnerOrder(cands_d, intake - (cands_b[ib].kcal + cands_l[il].kcal),
                            Len(cands_d))
  /\ dinners' = Take(cands_d', dinner_prefix)
  /\ k' = 1
  /\ pc' = "dinner"
  /\ UNCHANGED <<inputs, targets, ui, frames, lists, cands_b, cands_l, ib, il, plan, score, best, best_score>>

\* remain = intake - kcal_bl; the dinner loop starts over the sorted prefix
PairAccept ==
  /\ InPairs
  /\ ~Overlap(names_set(cands_b[ib]), names_set(cands_l[il]))
  /\ ~OverBudget(cands_b[ib].price + cands_l[il].price, budget_today)
  /\ dinners' = DinnerOrder(cands_d, intake - (cands_b[ib].kcal + cands_l[il].kcal),
                            dinner_prefix)
  /\ k' = 1
  /\ pc' = "dinner"
  /\ UNCHANGED <<inputs, targets, ui, frames, lists, ranked, ib, il, plan, score, best, best_score>>

InDinners == pc = "dinner" /\ k <= Len(dinners)

\* the lunch names are forgotten: only the breakfast names are compared
names_b_only == names_set(cands_b[ib])

names_bl == names_set(cands_b[ib]) \cup names_set(cands_l[il])

\* if names_bl & names_set(cd): continue
DinnerOverlap ==
  /\ InDinners
  /\ Overlap(names_bl, names_set(dinners[k]))
  /\ k' = k + 1
  /\ UNCHANGED <<inputs, targets, ui, frames, lists, ranked, ib, il, dinners, plan, score, best, best_score, pc>>

\* if price_total > budget: continue
DinnerOverBudget ==
  /\ InDinners
  /\ ~Overlap(names_bl, names_set(dinners[k]))
  /\ OverBudget((cands_b[ib].price + cands_l[il].price) + dinners[k].price, budget_today)
  /\ k' = k + 1
  /\ UNCHANGED <<inputs, targets, ui, frames, lists, ranked, ib, il, dinners, plan, score, best, best_score, pc>>

DinnerFeasible ==
  /\ InDinners
  /\ ~Overlap(names_bl, names_set(dinners[k]))
  /\ ~OverBudget((cands_b[ib].price + cands_l[il].price) + dinners[k].price, budget_today)

\* the plan is scored and recorded as the new best
DinnerRecord ==
  /\ DinnerFeasible
  /\ LET p == MakePlan(cands_b[ib], cands_l[il], dinners[k])
         s == plan_score(p, intake, tg.p, tg.f, tg.c)
     IN /\ Improves(s, p.price_total, best, best_score)
        /\ plan' = p /\ score' = s
        /\ best' = p /\ best_score' = s
  /\ k' = k + 1
  /\ UNCHANGED <<inputs, targets, ui, frames, lists, ranked, ib, il, dinners, pc>>

\* the plan is scored and does not improve on the best
DinnerKeep ==
  /\ DinnerFeasible
  /\ LET p == MakePlan(cands_b[ib], cands_l[il], dinners[k])
         s == plan_score(p, intake, tg.p, tg.f, tg.c)
     IN /\ ~Improves(s, p.price_total, best, best_score)
        /\ plan' = p /\ score' = s
  /\ k' = k + 1
  /\ UNCHANGED <<inputs, targets, ui, frames, lists, ranked, ib, il, dinners, best, best_score, pc>>

\* the dinner loop of this pair is over
DinnerEnd ==
  /\ pc = "dinner"
  /\ k > Len(dinners)
  /\ AdvancePair
  /\ pc' = "pair"
  /\ UNCHANGED <<inputs, targets, ui, frames, lists, ranked, dinners, k, plan, score, best, best_score>>

\* return best, best_score
OptReturn ==
  /\ pc = "pair"
  /\ ib > Len(cands_b)
  /\ pc' = "returned"
  /\ UNCHANGED <<inputs, targets, ui, frames, lists, ranked, ib, il, dinners, k, plan, score, best, best_score>>

\* if best: the plan is rendered
PageShow ==
  /\ pc = "returned"
  /\ best # None
  /\ pc' = "shown"
  /\ ui' = Append(ui, MsgPlan)
  /\ UNCHANGED <<inputs, targets, frames, lists, ranked, ib, il, dinners, k, plan, score, best, best_score>>

\* the missing plan is reported with the warning of the bundle check
PageNotFoundAsWarning ==
  /\ pc = "returned"
  /\ best = None
  /\ pc' = "error_no_plan"
  /\ ui' = Append(ui, MsgInsufficient)
  /\ UNCHANGED <<inputs, targets, frames, lists, ranked, ib, il, dinners, k, plan, score, best, best_score>>

\* else: st.error(...)
PageNotFound ==
  /\ pc = "returned"
  /\ best = None
  /\ pc' = "error_no_plan"
  /\ ui' = Append(ui, MsgNotFound)
  /\ UNCHANGED <<inputs, targets, frames, lists, ranked, ib, il, dinners, k, plan, score, best, best_score>>

Next ==
  \/ PageMissing
  \/ PageTrim
  \/ PageGenerate
  \/ PageInsufficient
  \/ OptStart
  \/ PairOverlap
  \/ PairOverBudget
  \/ PairAccept
  \/ DinnerOverlap
  \/ DinnerOverBudget
  \/ DinnerRecord
  \/ DinnerKeep
  \/ DinnerEnd
  \/ OptReturn
  \/ PageShow
  \/ PageNotFound

Spec == Init /\ [][Next]_vars

(***************************************************************************)
(* What the claims speak of, stated without the optimizer's own steps.     *)
(***************************************************************************)
Returned == pc \in {"returned", "shown", "error_no_plan"}

\* a column summed over a set of products, read from the product table
RECURSIVE FieldOfSet(_, _)
FieldOfSet(S, field) ==
  IF S = {} THEN 0
  ELSE LET x == CHOOSE y \in S : TRUE
       IN ItemTable[x][field] + FieldOfSet(S \ {x}, field)

PriceOfSet(S) == FieldOfSet(S, "price_jpy")

ItemsOf(c) == {c.items[i] : i \in 1..Len(c.items)}

PairwiseDisjoint(a, b, c) ==
  /\ ItemsOf(a) \cap ItemsOf(b) = {}
  /\ ItemsOf(a) \cap ItemsOf(c) = {}
  /\ ItemsOf(b) \cap ItemsOf(c) = {}

\* a triple of bundles that breaks neither constraint
FeasibleTriple(a, b, c) ==
  /\ PairwiseDisjoint(a, b, c)
  /\ a.price + b.price + c.price <= budget_today

\* the dinner candidates examined for the pair (cb, cl)
DinnerPool(cb, cl) ==
  Range(DinnerOrder(cands_d, intake - (cb.kcal + cl.kcal), dinner_prefix))

\* the candidate triples that break neither constraint
FeasibleCandidates ==
  {t \in Range(cands_b) \X Range(cands_l) \X Range(cands_d) :
     /\ t[3] \in DinnerPool(t[1], t[2])
     /\ FeasibleTriple(t[1], t[2], t[3])}

ScoreOf(t) == plan_score(MakePlan(t[1], t[2], t[3]), intake, Tg.p, Tg.f, Tg.c)

PriceOf(t) == t[1].price + t[2].price + t[3].price

\* C1: a returned plan has pairwise disjoint name sets for breakfast, lunch
\* and dinner, and its total price (as recorded, and as read again from the
\* product table) is at most the daily budget.
C1_DisjointWithinBudget ==
  (Returned /\ best # None) =>
    /\ PairwiseDisjoint(best.breakfast, best.lunch, best.dinner)
    /\ best.price_total <= budget_today
    /\ PriceOfSet(ItemsOf(best.breakfast) \cup ItemsOf(best.lunch)
                  \cup ItemsOf(best.dinner)) <= budget_today

\* a plan is returned that spends the whole budget, from slots that share a product
C1_Witness ==
  /\ Returned /\ best # None
  /\ best.price_total = budget_today
  /\ Range(df_b) \cap Range(df_l) \cap Range(df_d) # {}

\* C2: the returned plan is the lexicographic minimum by (score, price_total)
\* over the feasible candidate triples: it is one of them, none has a lower
\* score, and none has the same score and a lower total price.
C2_LexMinimum ==
  (Returned /\ FeasibleCandidates # {}) =>
    /\ best # None
    /\ \E t \in FeasibleCandidates :
         best = MakePlan(t[1], t[2], t[3]) /\ best_score = ScoreOf(t)
    /\ \A t \in FeasibleCandidates :
         \/ best_score < ScoreOf(t)
         \/ best_score = ScoreOf(t) /\ best.price_total <= PriceOf(t)

\* the minimum is decided by price: another feasible triple has the same score
\* and costs more, and a third one scores worse
C2_Witness ==
  /\ Returned /\ best # None
  /\ \E t \in FeasibleCandidates :
       ScoreOf(t) = best_score /\ PriceOf(t) > best.price_total
  /\ \E t \in FeasibleCandidates : ScoreOf(t) > best_score

\* C3: no plan is returned exactly when every candidate triple overlaps in a
\* name or costs more than the budget.
C3_NoneIffAllRejected ==
  Returned => (best = None <=> FeasibleCandidates = {})

\* no plan: some triple failed on names only, another on price only
C3_Witness ==
  /\ Returned /\ best = None
  /\ \E t \in Range(cands_b) \X Range(cands_l) \X Range(cands_d) :
       PairwiseDisjoint(t[1], t[2], t[3]) /\ PriceOf(t) > budget_today
  /\ \E t \in Range(cands_b) \X Range(cands_l) \X Range(cands_d) :
       ~PairwiseDisjoint(t[1], t[2], t[3]) /\ PriceOf(t) <= budget_today

\* the triples of generated bundles, one per slot
AllTriples == Range(combos_b) \X Range(combos_l) \X Range(combos_d)

\* the same bundles as ranked candidates carry them
SameBundle(c, x) == c.items = x.items

\* C4 as stated: when no plan is found, no triple of generated bundles is
\* name-disjoint and within the budget.
C4_NoneMeansNoneInFullOutputs ==
  (Returned /\ best = None) =>
    \A t \in AllTriples : ~FeasibleTriple(t[1], t[2], t[3])

\* C4 amended: when no plan is found, no triple of ranked candidates (the top
\* keep_top of each slot, the dinner within the prefix of its pair) is
\* name-disjoint and within the budget; and when no slot has more bundles than
\* keep_top and the prefix is no shorter than keep_top, this covers every
\* generated bundle.
C4_NoneMeansNoneAmongCandidates ==
  (Returned /\ best = None) =>
    /\ \A cb \in Range(cands_b), cl \in Range(cands_l) :
         \A cd \in DinnerPool(cb, cl) : ~FeasibleTriple(cb, cl, cd)
    /\ ( /\ Len(combos_b) <= keep_top /\ Len(combos_l) <= keep_top
         /\ Len(combos_d) <= keep_top /\ dinner_prefix >= keep_top )
       => \A t \in AllTriples : ~FeasibleTriple(t[1], t[2], t[3])

\* no plan is found, the ranking dropped bundles, and the candidates held a
\* triple that failed on the budget alone
C4_Witness ==
  /\ Returned /\ best = None
  /\ Len(combos_b) > keep_top
  /\ \E cb \in Range(cands_b), cl \in Range(cands_l), cd \in Range(cands_d) :
       PairwiseDisjoint(cb, cl, cd)

\* no plan is found although nothing was dropped
C4_WitnessUnpruned ==
  /\ Returned /\ best = None
  /\ Len(combos_b) <= keep_top /\ Len(combos_l) <= keep_top /\ Len(combos_d) <= keep_top
  /\ \E t \in AllTriples : PairwiseDisjoint(t[1], t[2], t[3])

(***************************************************************************)
(* The generator and the ranker, seen through the lists of the request.    *)
(***************************************************************************)
Generated == pc \notin {"submit", "generate", "error_missing"}

Ranked == pc \in {"pair", "dinner", "returned", "shown", "error_no_plan"}

\* each frame with the list generated from it
SlotLists == {<<df_b, combos_b>>, <<df_l, combos_l>>, <<df_d, combos_d>>}

\* each generated list with its ranked candidates and the target they were ranked by
SlotRanks ==
  {<<combos_b, cands_b, T_b(intake)>>, <<combos_l, cands_l, T_l(intake)>>,
   <<combos_d, cands_d, T_d(intake)>>}

RECURSIVE Binomial(_, _)
Binomial(n, r) ==
  IF r = 0 THEN 1
  ELSE IF n = 0 THEN 0
  ELSE Binomial(n - 1, r - 1) + Binomial(n - 1, r)

\* the sum of C(n, r) for r in 1..top
RECURSIVE SumBinomial(_, _)
SumBinomial(n, top) ==
  IF top = 0 THEN 0 ELSE SumBinomial(n, top - 1) + Binomial(n, top)

\* the subsets of a frame a bundle may be made of
Sized(df) ==
  {S \in SUBSET Range(df) :
     Cardinality(S) >= 1 /\ Cardinality(S) <= max_items /\ Cardinality(S) <= Len(df)}

Affordable(df) == {S \in Sized(df) : PriceOfSet(S) <= budget_today}

\* C6: from a frame of n distinct names the generator returns exactly one
\* bundle for each subset of 1..min(max_items, n) products whose price is at
\* most the budget (a price equal to the budget included) and nothing else;
\* the count is at most the sum of C(n, r), and equal to it when the budget
\* excludes nothing; no bundle holds a product twice.
C6_ExactlyTheAffordableSubsets ==
  Generated =>
    \A sl \in SlotLists :
      LET df == sl[1]
          combos == sl[2]
          full == SumBinomial(Len(df), Min(max_items, Len(df)))
      IN /\ {ItemsOf(c) : c \in Range(combos)} = Affordable(df)
         /\ Len(combos) = Cardinality(Affordable(df))
         /\ \A c \in Range(combos) : Len(c.items) = Cardinality(ItemsOf(c))
         /\ Len(combos) <= full
         /\ (Affordable(df) = Sized(df)) => Len(combos) = full

\* in one list: a bundle costs exactly the budget, a subset was too expensive,
\* and max_items is smaller than the frame
C6_Witness ==
  /\ Generated
  /\ \E sl \in SlotLists :
       /\ \E c \in Range(sl[2]) : c.price = budget_today /\ Len(c.items) >= 2
       /\ Affordable(sl[1]) # Sized(sl[1])
       /\ max_items < Len(sl[1])

\* the ranking key, computed from the bundle and the target
KeyOf(c, t) == <<Abs(c.kcal - t), c.price>>

KeyBefore(a, b) == a[1] < b[1] \/ (a[1] = b[1] /\ a[2] < b[2])

\* C7: the ranked candidates are in ascending order of (|kcal - target|,
\* price), there are min(keep_top, number of bundles) of them, each is a bundle
\* of the input taken once, and no dropped bundle has a strictly smaller key
\* than a retained one.
C7_RankedTopK ==
  Ranked =>
    \A sr \in SlotRanks :
      LET combos == sr[1]
          cands == sr[2]
          t == sr[3]
      IN /\ \A i, j \in 1..Len(cands) :
              i < j => ~KeyBefore(KeyOf(cands[j], t), KeyOf(cands[i], t))
         /\ Len(cands) = Min(keep_top, Len(combos))
         /\ \A i \in 1..Len(cands) :
              /\ \E c \in Range(combos) : cands[i] = Scored(c, t)
              /\ \A j \in 1..Len(cands) : cands[i].items = cands[j].items => i = j
         /\ \A c \in Range(combos) :
              (\A x \in Range(cands) : ~SameBundle(c, x)) =>
                \A x \in Range(cands) : ~KeyBefore(KeyOf(c, t), KeyOf(x, t))

\* a list longer than keep_top was reordered and cut, and a dropped bundle
\* has a strictly larger key than every retained one
C7_Witness ==
  /\ Ranked
  /\ \E sr \in SlotRanks :
       /\ Len(sr[1]) > keep_top
       /\ sr[2][1].items # sr[1][1].items
       /\ \E c \in Range(sr[1]) :
            \A x \in Range(sr[2]) : KeyBefore(KeyOf(x, sr[3]), KeyOf(c, sr[3]))

\* the position of a bundle in a list
PosIn(list, x) == CHOOSE i \in 1..Len(list) : list[i].items = x.items

\* C9: the ranking is stable: candidates with equal keys keep the order they
\* had in the input, and of two bundles with equal keys the one dropped by
\* the cut came later in the input than the one retained; so the i-th
\* candidate is the bundle that exactly i - 1 bundles precede in the order by
\* (key, input position).
C9_StableRanking ==
  Ranked =>
    \A sr \in SlotRanks :
      LET combos == sr[1]
          cands == sr[2]
          t == sr[3]
          Precedes(a, b) ==
            \/ KeyBefore(KeyOf(combos[a], t), KeyOf(combos[b], t))
            \/ KeyOf(combos[a], t) = KeyOf(combos[b], t) /\ a < b
      IN /\ \A i, j \in 1..Len(cands) :
              (i < j /\ KeyOf(cands[i], t) = KeyOf(cands[j], t)) =>
                PosIn(combos, cands[i]) < PosIn(combos, cands[j])
         /\ \A c \in 1..Len(combos), x \in Range(cands) :
              ( /\ \A y \in Range(cands) : ~SameBundle(combos[c], y)
                /\ KeyOf(combos[c], t) = KeyOf(x, t) ) =>
                PosIn(combos, x) < c
         /\ \A i \in 1..Len(cands) :
              Cardinality({a \in 1..Len(combos) : Precedes(a, PosIn(combos, cands[i]))})
                = i - 1

\* two retained candidates tie, and a dropped bundle ties with a retained one
C9_Witness ==
  /\ Ranked
  /\ \E sr \in SlotRanks :
       /\ \E i, j \in 1..Len(sr[2]) :
            i < j /\ KeyOf(sr[2][i], sr[3]) = KeyOf(sr[2][j], sr[3])
  /\ \E sr \in SlotRanks :
       \E c \in Range(sr[1]), x \in Range(sr[2]) :
         /\ \A y \in Range(sr[2]) : ~SameBundle(c, y)
         /\ KeyOf(c, sr[3]) = KeyOf(x, sr[3])

(***************************************************************************)
(* The scorer.                                                             *)
(***************************************************************************)
Scoring == plan # None

\* calorie totals to compare the scored plan with
KcalAlternatives ==
  {plan.kcal_total, 2 * intake - plan.kcal_total}
    \cup {intake + d : d \in {-300, -40, -1, 0, 1, 40, 300}}

WithKcal(p, kcal) == [p EXCEPT !.kcal_total = kcal]

ScoreAt(kcal) == plan_score(WithKcal(plan, kcal), intake, Tg.p, Tg.f, Tg.c)

\* C10: with protein, fat, carb and fiber totals and the targets held fixed,
\* a plan whose calorie total is no closer to the target never scores lower:
\* this holds between the plan just scored and every alternative total, and
\* between any two alternatives.
C10_MonotonicInKcalDeviation ==
  Scoring =>
    /\ score = ScoreAt(plan.kcal_total)
    /\ \A k1, k2 \in KcalAlternatives :
         Abs(k1 - intake) <= Abs(k2 - intake) => ScoreAt(k1) <= ScoreAt(k2)

\* a scored plan undershoots the target, pays a macro penalty, and an
\* overshoot of the same size scores the same
C10_Witness ==
  /\ Scoring
  /\ plan.kcal_total < intake
  /\ score > W_KCAL * Gram * Abs(plan.kcal_total - intake)
  /\ ScoreAt(2 * intake - plan.kcal_total) = score
  /\ \E k2 \in KcalAlternatives : ScoreAt(k2) > score
  /\ \E k2 \in KcalAlternatives : ScoreAt(k2) < score

(***************************************************************************)
(* plan_score called on its own: the totals of the plan and the four       *)
(* targets are drawn so that totals fall below, on, inside and above the   *)
(* band of every macro.  intake holds tg_kcal, tg the macro targets.       *)
(***************************************************************************)
ScoreKcalTotals == {0, 1000, 1200}
ScoreKcalTargets == {1000}
ScoreProteinTotals == {0, 60, 72, 80, 90, 92, 104, 115, 120}
ScoreFatTotals == {0, 5, 17, 20, 23, 34, 46}
ScoreCarbTotals == {0, 85, 100, 115, 130}
ScoreFiberTotals == {0, 18, 40}
ScoreTargets ==
  [p : {80 * TargetScale, 100 * TargetScale},
   f : {20 * TargetScale, 40 * TargetScale},
   c : {0, 100 * TargetScale}]

ScoredPlans ==
  {[None EXCEPT !.kcal_total = kc, !.protein_total = pr, !.fat_total = fa,
                !.carb_total = ca, !.fiber_total = fi] :
     kc \in ScoreKcalTotals, pr \in ScoreProteinTotals, fa \in ScoreFatTotals,
     ca \in ScoreCarbTotals, fi \in ScoreFiberTotals}

ScoreInit ==
  /\ plan \in ScoredPlans
  /\ intake \in ScoreKcalTargets
  /\ tg \in ScoreTargets
  /\ score = 0
  /\ pc = "score_call"
  /\ catalog = <<>> /\ budget_today = 0 /\ weight_today = 0 /\ max_items = 1
  /\ keep_top = KeepTop /\ dinner_prefix = DinnerPrefix
  /\ cancel_token = FALSE
  /\ df_b = <<>> /\ df_l = <<>> /\ df_d = <<>>
  /\ combos_b = <<>> /\ combos_l = <<>> /\ combos_d = <<>>
  /\ t_b = 0 /\ t_l = 0 /\ t_d = 0
  /\ cands_b = <<>> /\ cands_l = <<>> /\ cands_d = <<>>
  /\ ib = 1 /\ il = 1 /\ dinners = <<>> /\ k = 1
  /\ best = None /\ best_score = Inf
  /\ ui = <<>>

\* score = plan_score(plan, tg_kcal, tg_p, tg_f, tg_c)
ScoreCall ==
  /\ pc = "score_call"
  /\ score' = plan_score(plan, intake, tg.p, tg.f, tg.c)
  /\ pc' = "scored"
  /\ UNCHANGED <<inputs, targets, ui, frames, lists, ranked, ib, il, dinners, k, plan, best, best_score>>

ScoreNext == ScoreCall

ScoreSpec == ScoreInit /\ [][ScoreNext]_vars

ScoreDone == pc = "scored"

\* a total of x grams compared with num/BandScale times the target
Below(x, target, num) == x * BandScale * TargetScale < num * target
Above(x, target, num) == x * BandScale * TargetScale > num * target
Within(x, target, lo, hi) == ~Below(x, target, lo) /\ ~Above(x, target, hi)

\* the calorie term alone, w_kcal * |kcal_total - tg_kcal|
KcalOnly == W_KCAL * BandScale * TargetScale * Abs(plan.kcal_total - intake)

Excess(x, target, hi) == x * BandScale * TargetScale - hi * target
Shortfall(x, target, lo) == lo * target - x * BandScale * TargetScale

\* twice the penalty of one macro: an undershoot of d costs w * d, an
\* overshoot of d half of that, a total inside the band nothing
TwicePenalty(x, target, lo, hi, w) ==
  IF Below(x, target, lo) THEN 2 * w * Shortfall(x, target, lo)
  ELSE IF Above(x, target, hi) THEN w * Excess(x, target, hi)
  ELSE 0

TwiceFiber ==
  IF plan.fiber_total < FIBER_MIN_G
  THEN 2 * W_FIBER * BandScale * TargetScale * (FIBER_MIN_G - plan.fiber_total)
  ELSE 0

C13_NonNegativeAndReadOnly ==
  /\ [](ScoreDone => score >= 0)
  /\ [][plan' = plan]_vars

\* a plan on target in every respect scores exactly zero, and one that is
\* not scores more
C13_Witness ==
  /\ ScoreDone
  /\ plan.kcal_total = intake
  /\ plan.protein_total > 0 /\ plan.fat_total > 0 /\ plan.carb_total > 0
  /\ plan.fiber_total > FIBER_MIN_G
  /\ score = 0

(***************************************************************************)
(* The slot split called on its own, for every intake up to MaxSplitIntake *)
(* and for both shipped splits.                                            *)
(***************************************************************************)
SplitInit ==
  /\ intake \in 1..MaxSplitIntake
  /\ t_b = 0 /\ t_l = 0 /\ t_d = 0
  /\ pc = "split"
  /\ catalog = <<>> /\ budget_today = 0 /\ weight_today = 0 /\ max_items = 1
  /\ keep_top = KeepTop /\ dinner_prefix = DinnerPrefix
  /\ cancel_token = FALSE
  /\ df_b = <<>> /\ df_l = <<>> /\ df_d = <<>>
  /\ combos_b = <<>> /\ combos_l = <<>> /\ combos_d = <<>>
  /\ tg = NoTargets
  /\ cands_b = <<>> /\ cands_l = <<>> /\ cands_d = <<>>
  /\ ib = 1 /\ il = 1 /\ dinners = <<>> /\ k = 1
  /\ plan = None /\ score = 0
  /\ best = None /\ best_score = Inf
  /\ ui = <<>>

\* app7.py: t_b = int(intake*0.20); t_l = int(intake*0.40); t_d = intake - t_b - t_l
SplitApp7 ==
  /\ pc = "split"
  /\ t_b' = T_b(intake) /\ t_l' = T_l(intake) /\ t_d' = T_d(intake)
  /\ pc' = "split_app7"
  /\ UNCHANGED <<inputs, tg, ui, frames, lists, ranked, ib, il, dinners, k, plan, score, best, best_score>>

\* app3.py: t_b = int(intake*0.30); t_l = int(intake*0.40); t_d = intake - t_b - t_l
SplitApp3 ==
  /\ pc = "split"
  /\ t_b' = T_b_app3(intake) /\ t_l' = T_l_app3(intake) /\ t_d' = T_d_app3(intake)
  /\ pc' = "split_app3"
  /\ UNCHANGED <<inputs, tg, ui, frames, lists, ranked, ib, il, dinners, k, plan, score, best, best_score>>

SplitNext == SplitApp7 \/ SplitApp3

SplitSpec == SplitInit /\ [][SplitNext]_vars

\* t = int(intake * percent / 100)
IsFloorShare(t, percent) ==
  100 * t <= percent * intake /\ percent * intake < 100 * (t + 1)

\* the three targets add up to intake, none is negative, breakfast and lunch
\* are the floors of their shares and dinner holds its share plus what the
\* two floors dropped (less than 2 kcal)
SplitAddsUp(b_percent, l_percent) ==
  /\ t_b + t_l + t_d = intake
  /\ t_b >= 0 /\ t_l >= 0 /\ t_d >= 0
  /\ IsFloorShare(t_b, b_percent)
  /\ IsFloorShare(t_l, l_percent)
  /\ 100 * t_d >= (100 - b_percent - l_percent) * intake
  /\ 100 * t_d < (100 - b_percent - l_percent) * intake + 200

\* C14: for every positive integer intake the slot targets
\* (int(intake * f_b), int(intake * f_l), intake minus both) add up to intake
\* exactly and none is negative, the rounding remainder going to dinner;
\* this holds for the 20/40/40 split and for the 30/40/30 split.
C14_SplitSumsToIntake ==
  /\ pc = "split_app7" => SplitAddsUp(20, 40)
  /\ pc = "split_app3" => SplitAddsUp(30, 40)

\* both floors drop a fraction and dinner takes more than 1 kcal above its 40%
C14_Witness ==
  /\ pc = "split_app7"
  /\ 100 * t_b < 20 * intake
  /\ 100 * t_l < 40 * intake
  /\ 100 * t_d > 40 * intake + 100
  /\ t_b + t_l + t_d = intake

\* the item names that occur in the bundles handed to the optimizer
OfferedNames ==
  UNION {ItemsOf(c) : c \in Range(combos_b) \cup Range(combos_l) \cup Range(combos_d)}

\* the slots of a plan in which a name occurs
SlotsUsing(p, n) ==
  {slot \in {"breakfast", "lunch", "dinner"} : n \in ItemsOf(p[slot])}

\* C15: when the bundles offered to the optimizer contain fewer than three
\* distinct item names in total, it returns no plan; and a plan it returns
\* never uses one item name in two slots.
C15_TooFewNamesNoPlan ==
  Returned =>
    /\ Cardinality(OfferedNames) < 3 => best = None
    /\ best # None => \A n \in OfferedNames : Cardinality(SlotsUsing(best, n)) <= 1

\* two names are offered to all three slots, one bundle per slot would fit
\* the budget, and no plan is returned
C15_Witness ==
  /\ Returned
  /\ Cardinality(OfferedNames) = 2
  /\ Range(df_b) = OfferedNames /\ Range(df_l) = OfferedNames /\ Range(df_d) = OfferedNames
  /\ \E cb \in Range(cands_b), cl \in Range(cands_l), cd \in Range(cands_d) :
       cb.price + cl.price + cd.price <= budget_today
  /\ best = None

(***************************************************************************)
(* A request against a store where every slot has its own three products,  *)
(* all at 100 yen, with a budget of 300 yen and the shipped max_items,      *)
(* keep_top and dinner prefix.  No frame is empty, every product is         *)
(* affordable and no name is shared, so the steps for a missing frame, for  *)
(* a slot without bundles and for an overlap are never enabled.             *)
(***************************************************************************)
OwnPoolInit ==
  /\ catalog \in OwnPoolOrders
  /\ intake \in OwnPoolIntakes
  /\ budget_today = 300
  /\ weight_today \in WeightSet
  /\ max_items \in 1..MAX_ITEMS
  /\ keep_top = KEEP_TOP
  /\ cancel_token = FALSE
  /\ dinner_prefix = DINNER_PREFIX
  /\ Fresh
  /\ pc = "submit"

OwnPoolNext ==
  \/ PageTrim
  \/ PageGenerate
  \/ OptStart
  \/ PairOverBudget
  \/ PairAccept
  \/ DinnerOverBudget
  \/ DinnerRecord
  \/ DinnerKeep
  \/ DinnerEnd
  \/ OptReturn
  \/ PageShow

OwnPoolSpec == OwnPoolInit /\ [][OwnPoolNext]_vars

\* every slot has three products of its own, each costs 100, the budget is 300
OwnPools ==
  /\ Cardinality(Range(df_b)) = 3 /\ Cardinality(Range(df_l)) = 3
  /\ Cardinality(Range(df_d)) = 3
  /\ Range(df_b) \cap Range(df_l) = {} /\ Range(df_b) \cap Range(df_d) = {}
  /\ Range(df_l) \cap Range(df_d) = {}
  /\ \A n \in Range(df_b) \cup Range(df_l) \cup Range(df_d) : ItemTable[n].price_jpy = 100
  /\ budget_today = 300

\* C16: when each slot has its own pool of three items, the names are
\* distinct across all slots, every item costs 100 and the budget is 300,
\* generator and optimizer return a plan, never the not-found result; the
\* plan has exactly one item per slot and price_total = 300, so no returned
\* plan holds a multi-item bundle; the page shows it.
C16_OneItemPerSlot ==
  /\ (Returned /\ OwnPools) =>
       /\ best # None
       /\ Cardinality(ItemsOf(best.breakfast)) = 1 /\ Len(best.breakfast.items) = 1
       /\ Cardinality(ItemsOf(best.lunch)) = 1 /\ Len(best.lunch.items) = 1
       /\ Cardinality(ItemsOf(best.dinner)) = 1 /\ Len(best.dinner.items) = 1
       /\ ItemsOf(best.breakfast) \subseteq Range(df_b)
       /\ ItemsOf(best.lunch) \subseteq Range(df_l)
       /\ ItemsOf(best.dinner) \subseteq Range(df_d)
       /\ best.price_total = 300
  /\ OwnPools => pc # "error_no_plan"

\* bundles of two and three items were generated and ranked for every slot,
\* and the plan returned and shown is made of single items
C16_Witness ==
  /\ pc = "shown"
  /\ OwnPools
  /\ max_items = MAX_ITEMS
  /\ Len(cands_b) = 7 /\ Len(cands_l) = 7 /\ Len(cands_d) = 7
  /\ best # None
  /\ best.price_total = 300
  /\ Len(best.breakfast.items) + Len(best.lunch.items) + Len(best.dinner.items) = 3

\* the position is inside or after the optimizer's search
Searching == pc \in {"pair", "dinner", "returned", "shown", "error_no_plan"}

Failed == pc \in {"error_missing", "warning_insufficient"}

SomeFrameEmpty ==
  \/ load_products_for(catalog, "breakfast") = <<>>
  \/ load_products_for(catalog, "lunch") = <<>>
  \/ load_products_for(catalog, "dinner") = <<>>

SomeListEmpty == combos_b = <<>> \/ combos_l = <<>> \/ combos_d = <<>>

NothingRanked ==
  /\ cands_b = <<>> /\ cands_l = <<>> /\ cands_d = <<>>
  /\ best = None /\ best_score = Inf /\ plan = None

\* C17: when a slot's item list is empty, or generate_item_combos yields no
\* bundle for a slot, the request ends with a reported failure before the
\* search: the optimizer only ever runs on three non-empty bundle lists, an
\* empty item list stops the request before any bundle is generated, and
\* nothing follows either failure.
C17_FailureBeforeSearch ==
  /\ [](Searching => /\ ~SomeFrameEmpty
                     /\ df_b # <<>> /\ df_l # <<>> /\ df_d # <<>>
                     /\ ~SomeListEmpty)
  /\ [](SomeFrameEmpty =>
          /\ pc \in {"submit", "error_missing"}
          /\ combos_b = <<>> /\ combos_l = <<>> /\ combos_d = <<>>
          /\ NothingRanked
          /\ pc = "error_missing" => ui = <<MsgMissing>>)
  /\ []((pc \notin {"submit", "generate"} /\ ~SomeFrameEmpty /\ SomeListEmpty) =>
          /\ pc \in {"generated", "warning_insufficient"}
          /\ NothingRanked
          /\ pc = "warning_insufficient" => ui = <<MsgInsufficient>>)
  /\ [][~Failed]_vars

\* all three frames hold products, one slot got no bundle within the budget
\* while another did, and the request has stopped with the warning
C17_Witness ==
  /\ pc = "warning_insufficient"
  /\ df_b # <<>> /\ df_l # <<>> /\ df_d # <<>>
  /\ SomeListEmpty
  /\ (combos_b # <<>> \/ combos_l # <<>> \/ combos_d # <<>>)
  /\ NothingRanked
  /\ ui = <<MsgInsufficient>>

\* the request has run to its end: the page has nothing left to do
Ended == pc \in {"error_missing", "warning_insufficient", "shown", "error_no_plan"}

\* C18: when the search finds no feasible triple, that is reported with an
\* outcome of its own, different from the one for an empty catalog and from
\* the one for a slot without affordable bundle; none of the three failures
\* is swallowed: each puts exactly one failure message on the screen instead
\* of a plan.
C18_DistinctVisibleFailures ==
  /\ pc = "error_no_plan" =>
       /\ ui = <<MsgNotFound>>
       /\ ~SomeFrameEmpty /\ ~SomeListEmpty
       /\ FeasibleCandidates = {}
  /\ pc = "error_missing" => ui = <<MsgMissing>> /\ SomeFrameEmpty
  /\ pc = "warning_insufficient" =>
       ui = <<MsgInsufficient>> /\ ~SomeFrameEmpty /\ SomeListEmpty
  /\ MsgNotFound # MsgMissing /\ MsgNotFound # MsgInsufficient
  /\ MsgMissing # MsgInsufficient
  /\ MsgPlan \notin {MsgNotFound, MsgMissing, MsgInsufficient}
  /\ pc = "shown" => ui = <<MsgPlan>> /\ best # None
  /\ (Returned /\ best = None) => pc # "shown"
  /\ ~Ended => ui = <<>>
  /\ Ended => Len(ui) = 1

\* the search ran over non-empty candidate lists whose triples would fit the
\* budget one by one, found nothing, and the page shows the no-plan error
C18_Witness ==
  /\ pc = "error_no_plan"
  /\ ui = <<MsgNotFound>>
  /\ cands_b # <<>> /\ cands_l # <<>> /\ cands_d # <<>>
  /\ \E cb \in Range(cands_b), cl \in Range(cands_l), cd \in Range(cands_d) :
       cb.price + cl.price + cd.price <= budget_today
  /\ best = None

(***************************************************************************)
(* optimize_day_fixed_score_no_overlap called directly: the caller passes  *)
(* three non-empty bundle lists (every bundle of at most max_items         *)
(* products up to 600 yen), an intake and a budget of its own choice; the  *)
(* function takes whatever numbers it is given.                            *)
(***************************************************************************)
CallCatalogs ==
  {c \in Catalogs : /\ load_products_for(c, "breakfast") # <<>>
                    /\ load_products_for(c, "lunch") # <<>>
                    /\ load_products_for(c, "dinner") # <<>>}
CallIntakes == {400, 1000}
CallBudgets == {-100, 400, 600}

CallInit ==
  /\ catalog \in CallCatalogs
  /\ intake \in CallIntakes
  /\ budget_today \in CallBudgets
  /\ weight_today \in WeightSet
  /\ max_items \in 1..MaxItemsTop
  /\ keep_top = KeepTop
  /\ cancel_token = FALSE
  /\ dinner_prefix = DinnerPrefix
  /\ df_b = load_products_for(catalog, "breakfast")
  /\ df_l = load_products_for(catalog, "lunch")
  /\ df_d = load_products_for(catalog, "dinner")
  /\ combos_b = generate_item_combos(df_b, 600, max_items)
  /\ combos_l = generate_item_combos(df_l, 600, max_items)
  /\ combos_d = generate_item_combos(df_d, 600, max_items)
  /\ t_b = 0 /\ t_l = 0 /\ t_d = 0 /\ tg = NoTargets
  /\ cands_b = <<>> /\ cands_l = <<>> /\ cands_d = <<>>
  /\ ib = 1 /\ il = 1 /\ dinners = <<>> /\ k = 1
  /\ plan = None /\ score = 0
  /\ best = None /\ best_score = Inf
  /\ ui = <<>>
  /\ pc = "generated"

CallNext ==
  \/ OptStart
  \/ PairOverlap
  \/ PairOverBudget
  \/ PairAccept
  \/ DinnerOverlap
  \/ DinnerOverBudget
  \/ DinnerRecord
  \/ DinnerKeep
  \/ DinnerEnd
  \/ OptReturn

CallSpec == CallInit /\ [][CallNext]_vars

\* C19: a malformed configuration (a negative budget) is rejected with a
\* configuration error before the search begins: with such input the
\* optimizer never enters its loops and never returns the no-plan result.
C19_MalformedConfigurationRejected ==
  budget_today < 0 => pc \notin {"pair", "dinner", "returned"}

\* the calories left for dinner after the current breakfast and lunch
RemainNow == intake - (cands_b[ib].kcal + cands_l[il].kcal)

\* the dinners of the current pair: as many as the prefix allows, each a
\* dinner candidate taken once, ascending by (|kcal - remain|, price), and no
\* candidate left out has a strictly smaller key than one taken
DinnersInOrder ==
  /\ Len(dinners) = Min(dinner_prefix, Len(cands_d))
  /\ Len(dinners) <= dinner_prefix
  /\ k \in 1..(Len(dinners) + 1)
  /\ \A i \in 1..Len(dinners) : dinners[i] \in Range(cands_d)
  /\ \A i, j \in 1..Len(dinners) : i < j => dinners[i] # dinners[j]
  /\ \A i, j \in 1..Len(dinners) :
       i < j => ~KeyBefore(KeyOf(dinners[j], RemainNow), KeyOf(dinners[i], RemainNow))
  /\ \A c \in Range(cands_d) \ Range(dinners) : \A i \in 1..Len(dinners) :
       ~KeyBefore(KeyOf(c, RemainNow), KeyOf(dinners[i], RemainNow))

\* within one pair the dinners are taken one after the other from the front
\* of that list, and a new pair starts at the front of its own list
DinnersOneByOne ==
  /\ (pc = "dinner" /\ pc' = "dinner") => (k' = k + 1 /\ dinners' = dinners)
  /\ (pc = "pair" /\ pc' = "dinner") => k' = 1

\* C20: for each (breakfast, lunch) pair that passes the overlap and budget
\* tests, the dinner candidates are examined in ascending order of
\* |kcal - remain|, ties by ascending price, with
\* remain = intake - (cb.kcal + cl.kcal) computed for that pair (it may be
\* negative), and at most dinner_prefix of them are examined.
C20_DinnerOrderPerPair ==
  /\ [](pc = "dinner" => DinnersInOrder)
  /\ [][DinnersOneByOne]_vars

\* the second dinner of a pair is being examined, and the order for this pair
\* is not the order of the ranking against the fixed dinner target
C20_Witness ==
  /\ pc = "dinner"
  /\ k = 2
  /\ Len(dinners) = 2
  /\ dinners # Take(cands_d, dinner_prefix)
  /\ KeyBefore(KeyOf(dinners[1], RemainNow), KeyOf(dinners[2], RemainNow))

\* the calories left for dinner are negative and the dinners are still ordered
C20_WitnessNegativeRemain ==
  /\ pc = "dinner"
  /\ RemainNow < 0
  /\ Len(dinners) = 2
  /\ k = 2

(***************************************************************************)
(* The search seen as a reduce over the (breakfast, lunch) pairs.          *)
(***************************************************************************)
\* the feasible candidate triples of one (breakfast, lunch) pair
MatchesOf(cb, cl) == {t \in FeasibleCandidates : t[1] = cb /\ t[2] = cl}

ValueOf(t) == <<ScoreOf(t), PriceOf(t)>>

LexLeq(a, b) == a[1] < b[1] \/ (a[1] = b[1] /\ a[2] <= b[2])

\* the minimum of a non-empty set of (score, price) values
LexMin(V) == CHOOSE v \in V : \A u \in V : LexLeq(v, u)

\* the pairs that have a dinner match, and the best match of each
MatchedPairs ==
  {pr \in Range(cands_b) \X Range(cands_l) : MatchesOf(pr[1], pr[2]) # {}}

PairBest(pr) == LexMin({ValueOf(t) : t \in MatchesOf(pr[1], pr[2])})

\* C21: the result does not depend on the order in which the (breakfast,
\* lunch) pairs are processed: taking the best dinner match of every pair on
\* its own and reducing the set of these by minimum score, ties by minimum
\* price, gives the score and the price_total that the nested loop returns,
\* and nothing when the loop returns nothing.
C21_ReduceOverPairs ==
  Returned =>
    IF MatchedPairs = {}
    THEN best = None /\ best_score = Inf
    ELSE /\ best # None
         /\ <<best_score, best.price_total>> = LexMin({PairBest(pr) : pr \in MatchedPairs})

\* two pairs have matches, the better pair is not the one the loop meets
\* first, and the loop returns the value of the better one
C21_Witness ==
  /\ Returned /\ best # None
  /\ \E p1, p2 \in MatchedPairs :
       /\ PairBest(p1) # PairBest(p2)
       /\ LexLeq(PairBest(p2), PairBest(p1))
       /\ \E i1, i2 \in 1..Len(cands_b) : \E j1, j2 \in 1..Len(cands_l) :
            /\ cands_b[i1] = p1[1] /\ cands_l[j1] = p1[2]
            /\ cands_b[i2] = p2[1] /\ cands_l[j2] = p2[2]
            /\ (i1 < i2 \/ (i1 = i2 /\ j1 < j2))
       /\ <<best_score, best.price_total>> = PairBest(p2)

(***************************************************************************)
(* optimize_day_fixed_score_no_overlap as one function of its bundle lists *)
(* and of the numbers that its text fixes: the three slot targets, keep_top *)
(* of each ranking, the dinner prefix, and whether the pair's price is      *)
(* tested before the dinner loop.  The loops are folds in list order.  It   *)
(* is used to compare two runs on the same request.                         *)
(***************************************************************************)
\* one pass of the body of the dinner loop, lines 362-376
DinnerStep(acc, cb, cl, cd) ==
  IF Overlap(names_set(cb) \cup names_set(cl), names_set(cd)) THEN acc
  ELSE IF OverBudget((cb.price + cl.price) + cd.price, budget_today) THEN acc
  ELSE LET p == MakePlan(cb, cl, cd)
           s == plan_score(p, intake, target_pfc_grams(intake, weight_today).p,
                           target_pfc_grams(intake, weight_today).f,
                           target_pfc_grams(intake, weight_today).c)
       IN IF Improves(s, p.price_total, acc.best, acc.best_score)
          THEN [best |-> p, best_score |-> s]
          ELSE acc

\* for cd in sorted(cands_d, ...)[:prefix]; as in the loop, a pass is finished
\* before the next one begins
RECURSIVE DinnerFold(_, _, _, _, _)
DinnerFold(acc, cb, cl, ds, i) ==
  IF i > Len(ds) THEN acc
  ELSE LET next == DinnerStep(acc, cb, cl, ds[i])
       IN IF next = acc THEN DinnerFold(acc, cb, cl, ds, i + 1)
          ELSE DinnerFold(next, cb, cl, ds, i + 1)

\* the pair is rejected unless it leaves 200 yen for the dinner
LunchStepReserve(acc, cb, cl, cds, prefix, pair_test) ==
  IF Overlap(names_set(cb), names_set(cl)) THEN acc
  ELSE IF pair_test /\ OverBudget((cb.price + cl.price) + 200, budget_today) THEN acc
  ELSE DinnerFold(acc, cb, cl,
                  DinnerOrder(cds, intake - (cb.kcal + cl.kcal), prefix), 1)

\* one pass of the body of the lunch loop, lines 351-361
LunchStep(acc, cb, cl, cds, prefix, pair_test) ==
  IF Overlap(names_set(cb), names_set(cl)) THEN acc
  ELSE IF pair_test /\ OverBudget(cb.price + cl.price, budget_today) THEN acc
  ELSE DinnerFold(acc, cb, cl,
                  DinnerOrder(cds, intake - (cb.kcal + cl.kcal), prefix), 1)

\* for cl in cands_l
RECURSIVE LunchFold(_, _, _, _, _, _, _)
LunchFold(acc, cb, cls, j, cds, prefix, pair_test) ==
  IF j > Len(cls) THEN acc
  ELSE LET next == LunchStep(acc, cb, cls[j], cds, prefix, pair_test)
       IN IF next = acc THEN LunchFold(acc, cb, cls, j + 1, cds, prefix, pair_test)
          ELSE LunchFold(next, cb, cls, j + 1, cds, prefix, pair_test)

\* for cb in cands_b
RECURSIVE BreakfastFold(_, _, _, _, _, _, _)
BreakfastFold(acc, cbs, i, cls, cds, prefix, pair_test) ==
  IF i > Len(cbs) THEN acc
  ELSE LET next == LunchFold(acc, cbs[i], cls, 1, cds, prefix, pair_test)
       IN IF next = acc THEN BreakfastFold(acc, cbs, i + 1, cls, cds, prefix, pair_test)
          ELSE BreakfastFold(next, cbs, i + 1, cls, cds, prefix, pair_test)

\* the numbers of the shipped text of app7.py, with the model's bounds
Shipped ==
  [t_b |-> T_b(intake), t_l |-> T_l(intake), t_d |-> T_d(intake),
   keep_b |-> keep_top, keep_l |-> keep_top, keep_d |-> keep_top,
   prefix |-> dinner_prefix, pair_test |-> TRUE]

\* the value returned for the current bundle lists under the numbers cfg
optimize(cfg) ==
  BreakfastFold([best |-> None, best_score |-> Inf],
                top_candidates_by_target(combos_b, cfg.t_b, cfg.keep_b), 1,
                top_candidates_by_target(combos_l, cfg.t_l, cfg.keep_l),
                top_candidates_by_target(combos_d, cfg.t_d, cfg.keep_d),
                cfg.prefix, cfg.pair_test)

\* the run r2 is no worse than the run r1: a plan stays a plan, and its
\* (score, price_total) is not greater
NoWorse(r1, r2) ==
  r1.best # None =>
    /\ r2.best # None
    /\ LexLeq(<<r2.best_score, r2.best.price_total>>, <<r1.best_score, r1.best.price_total>>)

\* the steps of the search and the function agree on the request at hand
SameAsReturned(r) == r.best = best /\ r.best_score = best_score

\* the settings compared: keep_top of each slot at this run's value or one
\* below it, and every prefix up to this run's
Keeps == {n \in {keep_top - 1, keep_top} : n >= 1}
Settings ==
  {[Shipped EXCEPT !.keep_b = kb, !.keep_l = kl, !.keep_d = kd, !.prefix = pf] :
     kb \in Keeps, kl \in Keeps, kd \in Keeps, pf \in 1..dinner_prefix}

\* C22 as stated: raising keep_top of any one slot, or the dinner prefix, by
\* one, all else fixed, gives a result that is no worse: a plan stays a plan
\* and its (score, price_total) does not grow.
C22_RaisingAnyBoundNeverWorsens ==
  Returned =>
    /\ SameAsReturned(optimize(Shipped))
    /\ \A c \in Settings :
         LET r == optimize(c)
         IN  r.best # None =>
               /\ NoWorse(r, optimize([c EXCEPT !.keep_b = @ + 1]))
               /\ NoWorse(r, optimize([c EXCEPT !.keep_l = @ + 1]))
               /\ NoWorse(r, optimize([c EXCEPT !.keep_d = @ + 1]))
               /\ NoWorse(r, optimize([c EXCEPT !.prefix = @ + 1]))

\* C22, amended: raising keep_top of the breakfast or of the lunch ranking,
\* or raising the dinner prefix, never worsens the result; raising keep_top
\* of the dinner ranking never worsens it when the prefix is at least the
\* raised keep_top.
C22_RaisingWithinPrefixNeverWorsens ==
  Returned =>
    /\ SameAsReturned(optimize(Shipped))
    /\ \A c \in Settings :
         LET r == optimize(c)
         IN  r.best # None =>
               /\ NoWorse(r, optimize([c EXCEPT !.keep_b = @ + 1]))
               /\ NoWorse(r, optimize([c EXCEPT !.keep_l = @ + 1]))
               /\ NoWorse(r, optimize([c EXCEPT !.prefix = @ + 1]))
               /\ c.prefix >= c.keep_d + 1 =>
                    NoWorse(r, optimize([c EXCEPT !.keep_d = @ + 1]))

\* a setting with the prefix above keep_top finds nothing and, with one more
\* dinner candidate, finds a plan
C22_Witness ==
  /\ Returned
  /\ \E c \in Settings :
       /\ c.prefix >= c.keep_d + 1
       /\ optimize(c).best = None
       /\ optimize([c EXCEPT !.keep_d = @ + 1]).best # None

(***************************************************************************)
(* A caller that gives up while the optimizer runs.  The optimizer's       *)
(* parameters are (combos_b, combos_l, combos_d, intake, budget,           *)
(* weight_kg): the caller's flag is not among them, so the caller can set  *)
(* it at any moment of the search and the steps of the search are the same *)
(* as without it.                                                          *)
(***************************************************************************)
CancelInit == CallInit /\ budget_today > 0

\* the caller sets its flag while the search runs
CallerCancels ==
  /\ pc \in {"pair", "dinner"}
  /\ ~cancel_token
  /\ cancel_token' = TRUE
  /\ UNCHANGED <<catalog, intake, budget_today, weight_today, max_items,
                 keep_top, dinner_prefix, targets, ui, frames, lists, ranked,
                 ib, il, dinners, k, plan, score, best, best_score, pc>>

CancelNext ==
  \/ OptStart
  \/ PairOverlap
  \/ PairOverBudget
  \/ PairAccept
  \/ DinnerOverlap
  \/ DinnerOverBudget
  \/ DinnerRecord
  \/ DinnerKeep
  \/ DinnerEnd
  \/ OptReturn
  \/ CallerCancels

CancelSpec == CancelInit /\ [][CancelNext]_vars

\* the top of an iteration of the outer loop, after the first one
BetweenBreakfasts == pc = "pair" /\ il = 1 /\ 1 < ib /\ ib <= Len(cands_b)

\* C23: the optimizer looks at the caller's cancellation flag between two
\* iterations of the breakfast loop, and with the flag set its next step is
\* the return of what it has (nothing, or the best plan so far), not the
\* next breakfast candidate.
C23_CancelledSearchStops ==
  [][(cancel_token /\ BetweenBreakfasts) => pc' = "returned"]_vars

(***************************************************************************)
(* What the three functions leave alone.                                   *)
(***************************************************************************)
\* C24: generate_item_combos leaves the item lists as they were, the
\* ranking and the search leave the item lists and the bundle lists as they
\* were, and no step of the search, the sort of the dinners for a pair
\* included, changes a ranked list: same elements, same order.
C24_InputsLeftUnchanged ==
  [][/\ pc = "generate" => frames' = frames
     /\ pc \in {"generated", "pair", "dinner"} => frames' = frames /\ lists' = lists
     /\ pc \in {"pair", "dinner"} => ranked' = ranked]_vars

\* a later pair whose dinners were sorted into another order than the ranked
\* one, the ranked dinner list being still the ranking of the bundle list
C24_Witness ==
  /\ pc = "dinner"
  /\ ib > 1 \/ il > 1
  /\ Len(cands_d) >= 2
  /\ dinners # Take(cands_d, dinner_prefix)
  /\ cands_d = top_candidates_by_target(combos_d, t_d, keep_top)
  /\ combos_d = generate_item_combos(df_d, budget_today, max_items)

(***************************************************************************)
(* The trim of a slot's products before the bundles are generated, on      *)
(* tables with more breakfast products than the trim keeps.                *)
(***************************************************************************)
TrimNames == {"A", "D", "G", "H", "I", "J", "M"}
TrimOrders ==
  { <<"A", "D", "G", "H", "I", "J", "M">>,
    <<"I", "M", "H", "A", "J", "G", "D">> }
TrimCatalogs == {Restrict(o, S) : o \in TrimOrders, S \in SUBSET TrimNames}

TrimInit ==
  /\ catalog \in TrimCatalogs
  /\ intake \in IntakeSet
  /\ budget_today \in BudgetSet
  /\ weight_today \in WeightSet
  /\ max_items = 1
  /\ keep_top = KeepTop
  /\ cancel_token = FALSE
  /\ dinner_prefix = DinnerPrefix
  /\ Fresh
  /\ pc = "submit"

TrimNext ==
  \/ PageMissing
  \/ PageTrim

TrimSpec == TrimInit /\ [][TrimNext]_vars

Trimmed == pc = "generate"

Loaded(slot_key) == load_products_for(catalog, slot_key)

Dropped(slot_key, df) == Range(Loaded(slot_key)) \ Range(df)

Hinted(name, slot_key) == ItemTable[name].meal_slot_hint = slot_key

Off(name, target_kcal) == Abs(ItemTable[name].kcal - target_kcal)

TrimKeeps(slot_key, df, target_kcal) ==
  /\ Len(df) <= TrimN
  /\ Range(df) \subseteq Range(Loaded(slot_key))
  /\ Len(df) = Min(TrimN, Len(Loaded(slot_key)))
  /\ \A x \in Range(df), y \in Dropped(slot_key, df) :
       /\ ~(~Hinted(x, slot_key) /\ Hinted(y, slot_key))
       /\ Hinted(x, slot_key) = Hinted(y, slot_key) =>
            Off(x, target_kcal) <= Off(y, target_kcal)

\* C25: the trim of a slot keeps at most n products, keeps no product hinted
\* "any" while it drops one hinted for the slot, and among products of the
\* same priority keeps none that is farther from the slot's calorie target
\* than one it drops.
C25_TrimKeepsHintedThenNearest ==
  Trimmed =>
    /\ TrimKeeps("breakfast", df_b, T_b(intake))
    /\ TrimKeeps("lunch", df_l, T_l(intake))
    /\ TrimKeeps("dinner", df_d, T_d(intake))

\* the breakfast trim drops a breakfast product that is farther from the
\* target than a kept one, and a product hinted "any" that is nearer to the
\* target than a kept breakfast product
C25_Witness ==
  /\ Trimmed
  /\ Len(df_b) = TrimN
  /\ \E y \in Dropped("breakfast", df_b), x \in Range(df_b) :
       /\ Hinted(y, "breakfast") /\ Hinted(x, "breakfast")
       /\ Off(x, T_b(intake)) < Off(y, T_b(intake))
  /\ \E y \in Dropped("breakfast", df_b), x \in Range(df_b) :
       /\ ~Hinted(y, "breakfast") /\ Hinted(x, "breakfast")
       /\ Off(y, T_b(intake)) < Off(x, T_b(intake))

(***************************************************************************)
(* The budget test on the (breakfast, lunch) pair.  The optimizer is       *)
(* called on the bundles of tables that may hold the negative-priced       *)
(* dinner row.                                                             *)
(***************************************************************************)
PriceNames == {"A", "D", "G", "J", "F", "P"}
PriceOrders ==
  { <<"A", "D", "G", "J", "F", "P">>,
    <<"P", "F", "J", "G", "D", "A">> }
PriceCatalogs ==
  {c \in {Restrict(o, S) : o \in PriceOrders, S \in SUBSET PriceNames} :
     /\ load_products_for(c, "breakfast") # <<>>
     /\ load_products_for(c, "lunch") # <<>>
     /\ load_products_for(c, "dinner") # <<>>}
PriceBudgets == {150, 400, 600}

PriceInit ==
  /\ catalog \in PriceCatalogs
  /\ intake \in IntakeSet
  /\ budget_today \in PriceBudgets
  /\ weight_today \in WeightSet
  /\ max_items \in 1..MaxItemsTop
  /\ keep_top = KeepTop
  /\ cancel_token = FALSE
  /\ dinner_prefix = DinnerPrefix
  /\ df_b = load_products_for(catalog, "breakfast")
  /\ df_l = load_products_for(catalog, "lunch")
  /\ df_d = load_products_for(catalog, "dinner")
  /\ combos_b = generate_item_combos(df_b, budget_today, max_items)
  /\ combos_l = generate_item_combos(df_l, budget_today, max_items)
  /\ combos_d = generate_item_combos(df_d, budget_today, max_items)
  /\ combos_b # <<>> /\ combos_l # <<>> /\ combos_d # <<>>
  /\ t_b = 0 /\ t_l = 0 /\ t_d = 0 /\ tg = NoTargets
  /\ cands_b = <<>> /\ cands_l = <<>> /\ cands_d = <<>>
  /\ ib = 1 /\ il = 1 /\ dinners = <<>> /\ k = 1
  /\ plan = None /\ score = 0
  /\ best = None /\ best_score = Inf
  /\ ui = <<>>
  /\ pc = "generated"

PriceNext ==
  \/ OptStart
  \/ PairOverlap
  \/ PairOverBudget
  \/ PairAccept
  \/ DinnerOverlap
  \/ DinnerOverBudget
  \/ DinnerRecord
  \/ DinnerKeep
  \/ DinnerEnd
  \/ OptReturn

PriceSpec == PriceInit /\ [][PriceNext]_vars

NonNegativePrices == \A i \in 1..Len(catalog) : ItemTable[catalog[i]].price_jpy >= 0

\* the optimizer with the budget tested on the whole plan only
TripleTestOnly == optimize([Shipped EXCEPT !.pair_test = FALSE])

\* the pairs the pair test turns away
PairsOverBudget ==
  {pr \in Range(cands_b) \X Range(cands_l) :
     /\ ~Overlap(names_set(pr[1]), names_set(pr[2]))
     /\ OverBudget(pr[1].price + pr[2].price, budget_today)}

\* C26: with no negative price in the table, the optimizer returns what it
\* would return with the budget tested on the whole plan only: turning a
\* pair away for its price loses no plan.
C26_PairTestLosesNoPlan ==
  Returned =>
    /\ SameAsReturned(optimize(Shipped))
    /\ NonNegativePrices => SameAsReturned(TripleTestOnly)

\* no negative price, a pair is turned away for its price and a plan is
\* returned
C26_Witness ==
  /\ Returned
  /\ NonNegativePrices
  /\ PairsOverBudget # {}
  /\ best # None
  /\ SameAsReturned(TripleTestOnly)

\* a table with the negative-priced dinner row: a pair is turned away for
\* its price, nothing is returned, and the test on the whole plan alone
\* finds a plan within the budget
C26_WitnessNegativePrice ==
  /\ Returned
  /\ ~NonNegativePrices
  /\ PairsOverBudget # {}
  /\ best = None
  /\ TripleTestOnly.best # None
  /\ TripleTestOnly.best.price_total <= budget_today

(***************************************************************************)
(* The best plan while the search runs.                                    *)
(***************************************************************************)
BestValue == <<best_score, best.price_total>>

\* C27: from one step of the search to the next, a recorded best stays
\* recorded (it is never reset to None) and its (score, price_total) never
\* grows lexicographically; and whatever is recorded as best has three
\* bundles that share no product and a price_total within the budget.
C27_BestOnlyImproves ==
  /\ [](best # None =>
          /\ PairwiseDisjoint(best.breakfast, best.lunch, best.dinner)
          /\ best.price_total <= budget_today)
  /\ [][best # None =>
          /\ best' # None
          /\ LexLeq(<<best_score', best'.price_total>>, BestValue)]_vars

\* the recorded best is a plan of the breakfast at hand, and an earlier
\* breakfast had a feasible plan, a worse one: a recorded best has been
\* replaced by a better one
C27_Witness ==
  /\ pc = "dinner"
  /\ best # None
  /\ best = plan
  /\ best.breakfast = cands_b[ib]
  /\ \E t \in FeasibleCandidates :
       /\ PosIn(cands_b, t[1]) < ib
       /\ BestValue # ValueOf(t)
       /\ LexLeq(BestValue, ValueOf(t))

(***************************************************************************)
(* The value the optimizer returns.                                        *)
(***************************************************************************)
SumOver(b, field) == (b.breakfast[field] + b.lunch[field]) + b.dinner[field]

\* C28: of the returned (best, best_score), best is None exactly when
\* best_score is infinite; otherwise each total of best is the sum of that
\* total over its breakfast, lunch and dinner bundles, and best_score is
\* plan_score of best against the intake and the macro targets of the day.
C28_ReturnedValueConsistent ==
  Returned =>
    /\ best = None <=> best_score = Inf
    /\ best # None =>
         /\ best.kcal_total = SumOver(best, "kcal")
         /\ best.price_total = SumOver(best, "price")
         /\ best.protein_total = SumOver(best, "protein")
         /\ best.fat_total = SumOver(best, "fat")
         /\ best.carb_total = SumOver(best, "carb")
         /\ best.fiber_total = SumOver(best, "fiber")
         /\ best_score =
              plan_score(best, intake, target_pfc_grams(intake, weight_today).p,
                         target_pfc_grams(intake, weight_today).f,
                         target_pfc_grams(intake, weight_today).c)

\* a plan is returned whose bundles hold more than three products in all,
\* with a score above zero
C28_Witness ==
  /\ Returned
  /\ best # None
  /\ best_score > 0
  /\ Len(best.breakfast.items) + Len(best.lunch.items) + Len(best.dinner.items) > 3

\* nothing is returned after a search that went through the pairs
C28_WitnessNone ==
  /\ Returned
  /\ best = None
  /\ best_score = Inf
  /\ cands_b # <<>>

(***************************************************************************)
(* The two shapes the shipped files give keep_top and the dinner cut: the  *)
(* cut equal to keep_top (60 and [:60]) and the cut above keep_top (140    *)
(* and [:200]).  The optimizer is called on the bundles of a table.        *)
(***************************************************************************)
ShippedShapes == {<<KeepTop, DinnerPrefix>>, <<KeepTop, DinnerPrefix + 1>>}

ConfigInit ==
  /\ catalog \in CallCatalogs
  /\ intake \in CallIntakes
  /\ budget_today \in {400, 600}
  /\ weight_today \in WeightSet
  /\ max_items \in 1..MaxItemsTop
  /\ \E shape \in ShippedShapes : keep_top = shape[1] /\ dinner_prefix = shape[2]
  /\ cancel_token = FALSE
  /\ df_b = load_products_for(catalog, "breakfast")
  /\ df_l = load_products_for(catalog, "lunch")
  /\ df_d = load_products_for(catalog, "dinner")
  /\ combos_b = generate_item_combos(df_b, budget_today, max_items)
  /\ combos_l = generate_item_combos(df_l, budget_today, max_items)
  /\ combos_d = generate_item_combos(df_d, budget_today, max_items)
  /\ t_b = 0 /\ t_l = 0 /\ t_d = 0 /\ tg = NoTargets
  /\ cands_b = <<>> /\ cands_l = <<>> /\ cands_d = <<>>
  /\ ib = 1 /\ il = 1 /\ dinners = <<>> /\ k = 1
  /\ plan = None /\ score = 0
  /\ best = None /\ best_score = Inf
  /\ ui = <<>>
  /\ pc = "generated"

ConfigNext ==
  \/ OptStart
  \/ PairOverlap
  \/ PairOverBudget
  \/ PairAccept
  \/ DinnerOverlap
  \/ DinnerOverBudget
  \/ DinnerRecord
  \/ DinnerKeep
  \/ DinnerEnd
  \/ OptReturn

ConfigSpec == ConfigInit /\ [][ConfigNext]_vars

\* C29: in the shipped files the dinner cut is no shorter than keep_top (60
\* and 60, 140 and 200), so it is no shorter than the ranked dinner list and
\* drops nothing: the dinners examined for a pair are all the ranked dinner
\* candidates, in another order; and the ranked dinner list is the keep_top
\* bundles nearest to the dinner target of the split, whatever the pair.
C29_PrefixDropsNoDinner ==
  /\ DINNER_PREFIX >= KEEP_TOP
  /\ DINNER_PREFIX_APP3 >= KEEP_TOP_APP3
  /\ dinner_prefix >= keep_top
  /\ pc \in {"pair", "dinner", "returned"} =>
       /\ Len(cands_d) <= dinner_prefix
       /\ cands_d = top_candidates_by_target(combos_d, T_d(intake), keep_top)
  /\ pc = "dinner" =>
       /\ Len(dinners) = Len(cands_d)
       /\ Range(dinners) = Range(cands_d)

\* the ranking dropped a dinner bundle that is nearer to what the pair
\* leaves than a dinner the pair examines, and the dinners examined are all
\* the ranked ones in another order
C29_Witness ==
  /\ pc = "dinner"
  /\ Len(combos_d) > keep_top
  /\ Len(dinners) = keep_top
  /\ dinners # cands_d
  /\ \E c \in Range(combos_d) :
       /\ \A d \in Range(cands_d) : d.items # c.items
       /\ \E d \in Range(dinners) : Abs(c.kcal - RemainNow) < Abs(d.kcal - RemainNow)

(***************************************************************************)
(* The 20/40/40 optimizer of app7.py and the 30/40/30 optimizer of app3.py *)
(* on the same bundle lists.  The steps are app7.py's, with keep_top and   *)
(* the dinner cut as shipped; app3.py's run is the optimizer as a function *)
(* with app3.py's split, keep_top and cut.                                 *)
(***************************************************************************)
SameInputOrders ==
  { <<"A", "G", "H", "J", "K", "M", "N">>,
    <<"N", "K", "H", "M", "J", "G", "A">>,
    <<"C", "D", "G", "E", "J", "F", "M">> }

SameInputInit ==
  /\ catalog \in SameInputOrders
  /\ intake \in IntakeSet
  /\ budget_today \in {300, 400, 600}
  /\ weight_today \in WeightSet
  /\ max_items \in 1..MaxItemsTop
  /\ keep_top = KEEP_TOP
  /\ cancel_token = FALSE
  /\ dinner_prefix = DINNER_PREFIX
  /\ df_b = load_products_for(catalog, "breakfast")
  /\ df_l = load_products_for(catalog, "lunch")
  /\ df_d = load_products_for(catalog, "dinner")
  /\ combos_b = generate_item_combos(df_b, budget_today, max_items)
  /\ combos_l = generate_item_combos(df_l, budget_today, max_items)
  /\ combos_d = generate_item_combos(df_d, budget_today, max_items)
  /\ t_b = 0 /\ t_l = 0 /\ t_d = 0 /\ tg = NoTargets
  /\ cands_b = <<>> /\ cands_l = <<>> /\ cands_d = <<>>
  /\ ib = 1 /\ il = 1 /\ dinners = <<>> /\ k = 1
  /\ plan = None /\ score = 0
  /\ best = None /\ best_score = Inf
  /\ ui = <<>>
  /\ pc = "generated"

SameInputNext ==
  \/ OptStart
  \/ PairOverlap
  \/ PairOverBudget
  \/ PairAccept
  \/ DinnerOverlap
  \/ DinnerOverBudget
  \/ DinnerRecord
  \/ DinnerKeep
  \/ DinnerEnd
  \/ OptReturn

SameInputSpec == SameInputInit /\ [][SameInputNext]_vars

\* the numbers of the shipped text of app3.py
ShippedApp3 ==
  [t_b |-> T_b_app3(intake), t_l |-> T_l_app3(intake), t_d |-> T_d_app3(intake),
   keep_b |-> KEEP_TOP_APP3, keep_l |-> KEEP_TOP_APP3, keep_d |-> KEEP_TOP_APP3,
   prefix |-> DINNER_PREFIX_APP3, pair_test |-> TRUE]

\* no slot has more bundles than keep_top
NothingPruned ==
  /\ Len(combos_b) <= keep_top
  /\ Len(combos_l) <= keep_top
  /\ Len(combos_d) <= keep_top

\* C30: when no slot has more bundles than keep_top, the 20/40/40 optimizer
\* and the 30/40/30 optimizer, given the same bundle lists, intake, budget
\* and weight, both return nothing or return plans with the same score and
\* the same price_total.
C30_SplitDoesNotChangeResult ==
  (Returned /\ NothingPruned) =>
    LET r == optimize(ShippedApp3)
    IN /\ SameAsReturned(optimize(Shipped))
       /\ best = None <=> r.best = None
       /\ best # None =>
            /\ r.best_score = best_score
            /\ r.best.price_total = best.price_total

\* a plan is returned, and the 30/40/30 split ranks the breakfasts and the
\* dinners in another order than the 20/40/40 split did
C30_Witness ==
  /\ Returned
  /\ NothingPruned
  /\ best # None
  /\ optimize(ShippedApp3).best # None
  /\ cands_b # top_candidates_by_target(combos_b, T_b_app3(intake), KEEP_TOP_APP3)
  /\ cands_d # top_candidates_by_target(combos_d, T_d_app3(intake), KEEP_TOP_APP3)

====
